---- MODULE Spec2Model ----
(***************************************************************************)
(* Terrain streaming of eurydice: the quadrant noise sampler               *)
(* (terrain/generation.rs), the chunk mesh builder (terrain/chunk.rs) and  *)
(* the per-frame chunk streamer (terrain/mod.rs), with the section         *)
(* transitions that start and stop it (chase.rs, player.rs).               *)
(*                                                                         *)
(* Numbers.  World coordinates, chunk sizes and observer positions are     *)
(* integers.  Noise-space points are integer 3-vectors in units of         *)
(* noise_scale.  The noise field itself (noiz Fbm<Perlin>) is an external  *)
(* function: a height is kept as the noise-space point(s) it was sampled   *)
(* at, <<old, new, t>> meaning  old_h + t*(new_h - old_h)  with            *)
(* old_h = sample(old)*amplitude, new_h = sample(new)*amplitude and t a    *)
(* fixed-point blend factor.  Two heights that are equal as such values    *)
(* are equal for every noise field.                                        *)
(***************************************************************************)
EXTENDS Integers, Sequences, FiniteSets, TLC

(***************************************************************************)
(* Bounds of the model.                                                    *)
(***************************************************************************)
\* Render radius (in chunks) of the small configuration.
SmallRadius == 2
\* Per-frame spawn cap of the small configuration.
SmallCap == 3
\* Observer positions are kept within -PosBound .. PosBound on both axes.
PosBound == 1
\* Rotations explored per run of the program.
MaxRotations == 1
\* Denominator of the fixed-point distance used by blend_factor.
FixedPoint == 4
\* Bound on |x| and |z| of the observer's position on a long walk.
WalkBound == 8
\* Resolution of the object hash, and of the blue-noise coordinates.
HashDen == 1000
PointDen == 2
\* Forward vectors have both components within -FacingBound .. FacingBound.
FacingBound == 2
\* The random source yields components in steps of 1 / RngDen.
RngDen == 10
\* Rejected draws are counted up to MaxDraws.
MaxDraws == 2

(***************************************************************************)
(* Vectors.                                                                *)
(***************************************************************************)
Abs(n) == IF n < 0 THEN -n ELSE n

Dot2(a, b) == a[1] * b[1] + a[2] * b[2]
Add2(a, b) == <<a[1] + b[1], a[2] + b[2]>>
Sub2(a, b) == <<a[1] - b[1], a[2] - b[2]>>
Scale2(k, a) == <<k * a[1], k * a[2]>>

Dot3(a, b) == a[1] * b[1] + a[2] * b[2] + a[3] * b[3]
Add3(a, b) == <<a[1] + b[1], a[2] + b[2], a[3] + b[3]>>
Scale3(k, a) == <<k * a[1], k * a[2], k * a[3]>>

\* Dir3 constants of the engine.
DirX == <<1, 0, 0>>
DirNegX == <<-1, 0, 0>>
DirY == <<0, 1, 0>>
DirNegY == <<0, -1, 0>>
DirZ == <<0, 0, 1>>
DirNegZ == <<0, 0, -1>>
UnitDirs == {DirX, DirNegX, DirY, DirNegY, DirZ, DirNegZ}
\* The directions a random draw is taken from.
FreshDirs == {DirX, DirY, DirZ}

(***************************************************************************)
(* VisibleAxis and Quadrant.                                               *)
(***************************************************************************)
VisibleAxis == {"North", "East", "South", "West"}
Quadrant == {"NorthWest", "NorthEast", "SouthEast", "SouthWest"}

AxisLeft(a) ==
    CASE a = "North" -> "West"
      [] a = "East" -> "North"
      [] a = "South" -> "East"
      [] a = "West" -> "South"

AxisRight(a) ==
    CASE a = "North" -> "East"
      [] a = "East" -> "South"
      [] a = "South" -> "West"
      [] a = "West" -> "North"

\* Unit direction in the XZ plane, <<x, z>>.
Dir2d(a) ==
    CASE a = "North" -> <<0, -1>>
      [] a = "East" -> <<1, 0>>
      [] a = "South" -> <<0, 1>>
      [] a = "West" -> <<-1, 0>>

\* Mutant of LeftQuadrant: the quadrants of East and West are exchanged.
LeftQuadrantEastWest(a) ==
    CASE a = "North" -> "NorthWest"
      [] a = "East" -> "SouthWest"
      [] a = "South" -> "SouthEast"
      [] a = "West" -> "NorthEast"

LeftQuadrant(a) ==
    CASE a = "North" -> "NorthWest"
      [] a = "East" -> "NorthEast"
      [] a = "South" -> "SouthEast"
      [] a = "West" -> "SouthWest"

RightQuadrant(a) ==
    CASE a = "North" -> "NorthEast"
      [] a = "East" -> "SouthEast"
      [] a = "South" -> "SouthWest"
      [] a = "West" -> "NorthWest"

QuadrantIndex(q) ==
    CASE q = "NorthWest" -> 0
      [] q = "NorthEast" -> 1
      [] q = "SouthEast" -> 2
      [] q = "SouthWest" -> 3

\* DebugColour as its discriminant 0..7 (Red .. White); next wraps around.
ColourNext(c) == (c + 1) % 8

(***************************************************************************)
(* Configuration.  TerrainConfig's fields plus the per-frame spawn cap.    *)
(* chunk_size must be a multiple of 2*(chunk_resolution - 1) here so that  *)
(* vertex positions and chunk centers are integers.                        *)
(***************************************************************************)
\* Max chunks to generate per frame.
MAX_SPAWNS_PER_FRAME == 64

DefaultConfig ==
    [chunk_size |-> 8, chunk_resolution |-> 5, noise_scale |-> 1,
     render_radius |-> 16, max_spawns |-> MAX_SPAWNS_PER_FRAME]

SmallConfig ==
    [chunk_size |-> 2, chunk_resolution |-> 3, noise_scale |-> 1,
     render_radius |-> SmallRadius, max_spawns |-> SmallCap]

(***************************************************************************)
(* NoiseSampler.                                                           *)
(***************************************************************************)
DefaultSampler ==
    [visible_axis |-> "North",
     left_axis |-> DirNegX,
     center_axis |-> DirNegZ,
     right_axis |-> DirX,
     noise_origin |-> <<0, 0, 0>>,
     quadrant_origin |-> <<0, 0>>]

\* The left-plane formula of noise_point: (left_axis, center_axis).
LeftPlane(s, along, lateral, noise_scale) ==
    Add3(Add3(s.noise_origin, Scale3(along * noise_scale, s.center_axis)),
         Scale3(lateral * noise_scale, s.left_axis))

\* Mutant of RightPlane: the right plane is not turned, so right_axis runs
\* along the seam.
RightPlaneUnturned(s, along, lateral, noise_scale) ==
    Add3(Add3(s.noise_origin, Scale3(along * noise_scale, s.right_axis)),
         Scale3((-lateral) * noise_scale, s.center_axis))

\* The right-plane formula of noise_point: (center_axis, right_axis).
RightPlane(s, along, lateral, noise_scale) ==
    Add3(Add3(s.noise_origin, Scale3(along * noise_scale, s.center_axis)),
         Scale3((-lateral) * noise_scale, s.right_axis))

\* d . visible_2d for the world point (wx, wz).
Along(s, wx, wz) ==
    Dot2(<<wx - s.quadrant_origin[1], wz - s.quadrant_origin[2]>>, Dir2d(s.visible_axis))

\* d . left_2d for the world point (wx, wz).
Lateral(s, wx, wz) ==
    Dot2(<<wx - s.quadrant_origin[1], wz - s.quadrant_origin[2]>>,
         Dir2d(AxisLeft(s.visible_axis)))

\* Map a world-space (x, z) position to a noise-space point.
NoisePoint(s, wx, wz, noise_scale) ==
    LET along == Along(s, wx, wz)
        lateral == Lateral(s, wx, wz)
    IN  IF lateral >= 0
        THEN LeftPlane(s, along, lateral, noise_scale)
        ELSE RightPlane(s, along, lateral, noise_scale)

\* Which named quadrant a world point falls in.
QuadrantAt(s, wx, wz) ==
    LET north == wz < s.quadrant_origin[2]
        east == wx >= s.quadrant_origin[1]
    IN  CASE north /\ ~east -> "NorthWest"
          [] north /\ east -> "NorthEast"
          [] ~north /\ east -> "SouthEast"
          [] ~north /\ ~east -> "SouthWest"

\* Mutant of SnapDown: the chunk boundary ahead, not the one behind.
SnapUp(p, chunk_size) == ((p \div chunk_size) + 1) * chunk_size

\* floor(p / chunk_size) * chunk_size
SnapDown(p, chunk_size) == (p \div chunk_size) * chunk_size

\* Mutant of SlideOrigin: the origin slides to the observer, not to the chunk
\* boundary behind.
SlideOriginUnsnapped(s, player_pos, chunk_size, noise_scale) ==
    LET visible_2d == Dir2d(s.visible_axis)
        p_along == Dot2(player_pos, visible_2d)
        old_along == Dot2(s.quadrant_origin, visible_2d)
        d_along == p_along - old_along
    IN  [s EXCEPT
            !.noise_origin = Add3(@, Scale3(d_along * noise_scale, s.center_axis)),
            !.quadrant_origin = Add2(@, Scale2(d_along, visible_2d))]

\* Mutant of SlideOrigin: noise_origin is not compensated.
SlideOriginUncompensated(s, player_pos, chunk_size, noise_scale) ==
    LET visible_2d == Dir2d(s.visible_axis)
        snapped == SnapDown(Dot2(player_pos, visible_2d), chunk_size)
        d_along == snapped - Dot2(s.quadrant_origin, visible_2d)
    IN  [s EXCEPT !.quadrant_origin = Add2(@, Scale2(d_along, visible_2d))]

SlideOrigin(s, player_pos, chunk_size, noise_scale) ==
    LET visible_2d == Dir2d(s.visible_axis)
        p_along == Dot2(player_pos, visible_2d)
        snapped == SnapDown(p_along, chunk_size)
        old_along == Dot2(s.quadrant_origin, visible_2d)
        d_along == snapped - old_along
    IN  [s EXCEPT
            !.noise_origin = Add3(@, Scale3(d_along * noise_scale, s.center_axis)),
            !.quadrant_origin = Add2(@, Scale2(d_along, visible_2d))]

\* random_orthogonal_dir3 returns some unit vector orthogonal to dir; the
\* draws are taken from FreshDirs.
RandomOrthogonalDir3(dir) == {v \in FreshDirs : Dot3(v, dir) = 0}

(***************************************************************************)
(* generation.rs: the rejection loops of random_unit_vec3 and              *)
(* random_orthogonal_dir3, draw by draw.  A drawn vector holds the          *)
(* numerators of its components over RngDen; a direction is kept as the    *)
(* shortest integer vector on its ray, which normalize() maps a vector to. *)
(***************************************************************************)
\* The components rng.random_range(-1.0..1.0) yields here: the lower end,
\* one step either side of zero, zero, and a half.
RngValues == {-RngDen, -1, 0, 1, RngDen \div 2}

RngVectors == RngValues \X RngValues \X RngValues

LengthSquared(v) == Dot3(v, v)

\* num / den > 0.01
LongEnough(num, den) == 100 * num > den

\* random_unit_vec3: v.length_squared() > 0.01
UnitAccepts(u) == LongEnough(LengthSquared(u), RngDen * RngDen)

\* Mutant of Projected: the component along the axis is kept.
ProjectedAlong(u, dir) ==
    LET along == Dot3(u, dir)
    IN  <<along * dir[1], along * dir[2], along * dir[3]>>

\* v - v.dot(*dir) * *dir for v = u.normalize(), times |dir|^2 * |u|.
Projected(u, dir) ==
    LET n == LengthSquared(dir)
        along == Dot3(u, dir)
    IN  <<n * u[1] - along * dir[1], n * u[2] - along * dir[2],
          n * u[3] - along * dir[3]>>

\* random_orthogonal_dir3: projected.length_squared() > 0.01
OrthogonalAccepts(u, dir) ==
    LET n == LengthSquared(dir)
    IN  LongEnough(LengthSquared(Projected(u, dir)), n * n * LengthSquared(u))

RECURSIVE Gcd(_, _)
Gcd(a, b) == IF b = 0 THEN a ELSE Gcd(b, a % b)

\* normalize(): the direction of a vector that is not zero.
Normalize(v) ==
    LET g == Gcd(Gcd(Abs(v[1]), Abs(v[2])), Abs(v[3]))
    IN  <<v[1] \div g, v[2] \div g, v[3] \div g>>

\* Mutant of RotateLeft: the old left axis goes to the right role and the
\* old center axis stays.
RotateLeftRolesSwapped(s, player_pos, chunk_size, noise_scale, fresh) ==
    LET new_visible == AxisLeft(s.visible_axis)
        new_visible_2d == Dir2d(new_visible)
        snapped_along == SnapDown(Dot2(player_pos, new_visible_2d), chunk_size)
        cross_2d == Dir2d(AxisLeft(new_visible))
    IN  [visible_axis |-> new_visible,
         left_axis |-> fresh,
         center_axis |-> s.center_axis,
         right_axis |-> s.left_axis,
         noise_origin |-> s.noise_origin,
         quadrant_origin |-> Add2(Scale2(snapped_along, new_visible_2d),
                                  Scale2(Dot2(s.quadrant_origin, cross_2d), cross_2d))]

\* Mutant of RotateLeft: the new origin loses its cross-direction coordinate.
RotateLeftCrossLost(s, player_pos, chunk_size, noise_scale, fresh) ==
    LET new_visible == AxisLeft(s.visible_axis)
        new_visible_2d == Dir2d(new_visible)
        snapped_along == SnapDown(Dot2(player_pos, new_visible_2d), chunk_size)
        new_origin == Scale2(snapped_along, new_visible_2d)
        new_center == s.left_axis
        new_right == s.center_axis
        d == Sub2(new_origin, s.quadrant_origin)
        d_along == Dot2(d, new_visible_2d)
        d_across == -Dot2(d, Dir2d(AxisLeft(new_visible)))
    IN  [visible_axis |-> new_visible,
         left_axis |-> fresh,
         center_axis |-> new_center,
         right_axis |-> new_right,
         noise_origin |->
            Add3(Add3(s.noise_origin, Scale3(d_along * noise_scale, new_center)),
                 Scale3(d_across * noise_scale, new_right)),
         quadrant_origin |-> new_origin]

\* Mutant of RotateLeft: the new origin is put at the observer, not at the
\* chunk boundary behind.
RotateLeftUnsnapped(s, player_pos, chunk_size, noise_scale, fresh) ==
    LET new_visible == AxisLeft(s.visible_axis)
        new_visible_2d == Dir2d(new_visible)
        snapped_along == Dot2(player_pos, new_visible_2d)
        cross_2d == Dir2d(AxisLeft(new_visible))
        new_origin == Add2(Scale2(snapped_along, new_visible_2d),
                           Scale2(Dot2(s.quadrant_origin, cross_2d), cross_2d))
        new_left == fresh
        new_center == s.left_axis
        new_right == s.center_axis
        d == Sub2(new_origin, s.quadrant_origin)
        d_along == Dot2(d, new_visible_2d)
        d_across == -Dot2(d, Dir2d(AxisLeft(new_visible)))
        new_noise_origin ==
            Add3(Add3(s.noise_origin, Scale3(d_along * noise_scale, new_center)),
                 Scale3(d_across * noise_scale, new_right))
    IN  [visible_axis |-> new_visible,
         left_axis |-> new_left,
         center_axis |-> new_center,
         right_axis |-> new_right,
         noise_origin |-> new_noise_origin,
         quadrant_origin |-> new_origin]

\* rotate_left; fresh is the direction drawn by random_orthogonal_dir3(left_axis).
RotateLeft(s, player_pos, chunk_size, noise_scale, fresh) ==
    LET new_visible == AxisLeft(s.visible_axis)
        new_visible_2d == Dir2d(new_visible)
        snapped_along == SnapDown(Dot2(player_pos, new_visible_2d), chunk_size)
        cross_2d == Dir2d(AxisLeft(new_visible))
        new_origin == Add2(Scale2(snapped_along, new_visible_2d),
                           Scale2(Dot2(s.quadrant_origin, cross_2d), cross_2d))
        new_left == fresh
        new_center == s.left_axis
        new_right == s.center_axis
        d == Sub2(new_origin, s.quadrant_origin)
        d_along == Dot2(d, new_visible_2d)
        d_across == -Dot2(d, Dir2d(AxisLeft(new_visible)))
        new_noise_origin ==
            Add3(Add3(s.noise_origin, Scale3(d_along * noise_scale, new_center)),
                 Scale3(d_across * noise_scale, new_right))
    IN  [visible_axis |-> new_visible,
         left_axis |-> new_left,
         center_axis |-> new_center,
         right_axis |-> new_right,
         noise_origin |-> new_noise_origin,
         quadrant_origin |-> new_origin]

\* Mutant of RotateRight: only the old center axis carries over.
RotateRightOneKept(s, player_pos, chunk_size, noise_scale, fresh) ==
    LET new_visible == AxisRight(s.visible_axis)
        new_visible_2d == Dir2d(new_visible)
        snapped_along == SnapDown(Dot2(player_pos, new_visible_2d), chunk_size)
        cross_2d == Dir2d(AxisLeft(new_visible))
    IN  [visible_axis |-> new_visible,
         left_axis |-> s.center_axis,
         center_axis |-> fresh,
         right_axis |-> Scale3(-1, s.center_axis),
         noise_origin |-> s.noise_origin,
         quadrant_origin |-> Add2(Scale2(snapped_along, new_visible_2d),
                                  Scale2(Dot2(s.quadrant_origin, cross_2d), cross_2d))]

\* Mutant of RotateRight: noise_origin is carried over unadjusted.
RotateRightUnadjusted(s, player_pos, chunk_size, noise_scale, fresh) ==
    LET new_visible == AxisRight(s.visible_axis)
        new_visible_2d == Dir2d(new_visible)
        snapped_along == SnapDown(Dot2(player_pos, new_visible_2d), chunk_size)
        cross_2d == Dir2d(AxisLeft(new_visible))
    IN  [visible_axis |-> new_visible,
         left_axis |-> s.center_axis,
         center_axis |-> s.right_axis,
         right_axis |-> fresh,
         noise_origin |-> s.noise_origin,
         quadrant_origin |-> Add2(Scale2(snapped_along, new_visible_2d),
                                  Scale2(Dot2(s.quadrant_origin, cross_2d), cross_2d))]

\* rotate_right; fresh is the direction drawn by random_orthogonal_dir3(right_axis).
RotateRight(s, player_pos, chunk_size, noise_scale, fresh) ==
    LET new_visible == AxisRight(s.visible_axis)
        new_visible_2d == Dir2d(new_visible)
        snapped_along == SnapDown(Dot2(player_pos, new_visible_2d), chunk_size)
        cross_2d == Dir2d(AxisLeft(new_visible))
        new_origin == Add2(Scale2(snapped_along, new_visible_2d),
                           Scale2(Dot2(s.quadrant_origin, cross_2d), cross_2d))
        new_left == s.center_axis
        new_center == s.right_axis
        new_right == fresh
        d == Sub2(new_origin, s.quadrant_origin)
        new_left_2d == Dir2d(AxisLeft(new_visible))
        d_along == Dot2(d, new_visible_2d)
        d_across == Dot2(d, new_left_2d)
        new_noise_origin ==
            Add3(Add3(s.noise_origin, Scale3(d_across * noise_scale, new_left)),
                 Scale3(d_along * noise_scale, new_center))
    IN  [visible_axis |-> new_visible,
         left_axis |-> new_left,
         center_axis |-> new_center,
         right_axis |-> new_right,
         noise_origin |-> new_noise_origin,
         quadrant_origin |-> new_origin]

(***************************************************************************)
(* Heights.  <<old, new, t>> stands for old_h + t*(new_h - old_h), t being *)
(* the numerator of the blend factor.  A height sampled at one point p is  *)
(* <<p, p, 0>>; the f32 literal 0.0 is ZeroHeight.                         *)
(***************************************************************************)
ZeroHeight == <<<<0, 0, 0>>, <<0, 0, 0>>, -1>>

\* noise.sample(p) * amplitude
SampleHeight(p) == <<p, p, 0>>

\* old_h + t * (h - old_h): exactly old_h when t = 0 or when h = old_h.
Lerp(old_p, p, t) ==
    IF t = 0 \/ old_p = p THEN SampleHeight(old_p) ELSE <<old_p, p, t>>

(***************************************************************************)
(* StaleRegion and blend_factor.  Option<T> is <<>> (None) or <<v>> (Some).*)
(***************************************************************************)
None == <<>>
Some(v) == <<v>>

\* Dir3::new: an error for a vector without a direction.
Dir3New(v) == IF v = <<0, 0, 0>> THEN None ELSE Some(Normalize(v))

\* No call of random_orthogonal_dir3 is running.
NoDraw == [dir |-> DirX, draws |-> 0, units |-> 0, result |-> None]

Max(a, b) == IF a >= b THEN a ELSE b
Min(a, b) == IF a <= b THEN a ELSE b

RECURSIVE ISqrtBetween(_, _, _)
\* The largest r in lo..hi with r*r <= n (lo*lo <= n is given).
ISqrtBetween(n, lo, hi) ==
    IF lo >= hi THEN lo
    ELSE LET mid == (lo + hi + 1) \div 2
         IN  IF mid * mid <= n THEN ISqrtBetween(n, mid, hi)
             ELSE ISqrtBetween(n, lo, mid - 1)

\* sqrt(n) in units of 1/FixedPoint, rounded down.
SqrtFixed(n) == ISqrtBetween(n * FixedPoint * FixedPoint, 0, n * FixedPoint)

\* Denominator of the values Smoothstep returns for the edges edge0 < edge1.
SmoothDen(edge0, edge1) ==
    LET den == (edge1 - edge0) * FixedPoint IN den * den * den

\* smoothstep; x is in units of 1/FixedPoint, the result has SmoothDen as
\* its denominator.
Smoothstep(edge0, edge1, x) ==
    LET den == (edge1 - edge0) * FixedPoint
        t == Max(0, Min(den, x - edge0 * FixedPoint))
    IN  t * t * (3 * den - 2 * t)

\* Mutant of BlendFactor: the distances to the footprint are not clamped
\* at zero.
BlendFactorUnclamped(wx, wz, st, chunk_size) ==
    LET min_x == st.grid_pos[1] * chunk_size
        max_x == min_x + chunk_size
        min_z == st.grid_pos[2] * chunk_size
        max_z == min_z + chunk_size
        dx == Max(min_x - wx, wx - max_x)
        dz == Max(min_z - wz, wz - max_z)
        dist == SqrtFixed(dx * dx + dz * dz)
    IN  Smoothstep(0, chunk_size, dist)

\* blend_factor: numerator over SmoothDen(0, chunk_size).
BlendFactor(wx, wz, st, chunk_size) ==
    LET min_x == st.grid_pos[1] * chunk_size
        max_x == min_x + chunk_size
        min_z == st.grid_pos[2] * chunk_size
        max_z == min_z + chunk_size
        dx == Max(0, Max(min_x - wx, wx - max_x))
        dz == Max(0, Max(min_z - wz, wz - max_z))
        dist == SqrtFixed(dx * dx + dz * dz)
    IN  Smoothstep(0, chunk_size, dist)

(***************************************************************************)
(* chunk.rs: shared_height, terrain_height, generate_chunk_mesh.           *)
(***************************************************************************)
\* Entries of each of the four arrays of ChunkEdgeHeights ([f32; 5]).
EdgeLen == 5

\* Mutant of SharedHeight: the south-east corner reads the wrong end of the
\* stale chunk's south edge.
SharedHeightWrongCorner(edges, chunk_x, chunk_z, xi, zi, stale_x, stale_z, res) ==
    LET dx == chunk_x - stale_x
        dz == chunk_z - stale_z
        last == res - 1
    IN  CASE dx = 1 /\ dz = 0 /\ xi = 0 -> Some(edges.east[zi])
          [] dx = -1 /\ dz = 0 /\ xi = last -> Some(edges.west[zi])
          [] dx = 0 /\ dz = 1 /\ zi = 0 -> Some(edges.south[xi])
          [] dx = 0 /\ dz = -1 /\ zi = last -> Some(edges.north[xi])
          [] dx = 1 /\ dz = 1 /\ xi = 0 /\ zi = 0 -> Some(edges.south[0])
          [] dx = -1 /\ dz = 1 /\ xi = last /\ zi = 0 -> Some(edges.south[0])
          [] dx = 1 /\ dz = -1 /\ xi = 0 /\ zi = last -> Some(edges.north[last])
          [] dx = -1 /\ dz = -1 /\ xi = last /\ zi = last -> Some(edges.north[0])
          [] OTHER -> None

\* Mutant of SharedHeight: next to the south-east corner the whole west column
\* takes the stale corner's height.
SharedHeightDiagonalEdge(edges, chunk_x, chunk_z, xi, zi, stale_x, stale_z, res) ==
    LET dx == chunk_x - stale_x
        dz == chunk_z - stale_z
        last == res - 1
    IN  CASE dx = 1 /\ dz = 0 /\ xi = 0 -> Some(edges.east[zi])
          [] dx = -1 /\ dz = 0 /\ xi = last -> Some(edges.west[zi])
          [] dx = 0 /\ dz = 1 /\ zi = 0 -> Some(edges.south[xi])
          [] dx = 0 /\ dz = -1 /\ zi = last -> Some(edges.north[xi])
          [] dx = 1 /\ dz = 1 /\ xi = 0 -> Some(edges.south[last])
          [] dx = -1 /\ dz = 1 /\ xi = last /\ zi = 0 -> Some(edges.south[0])
          [] dx = 1 /\ dz = -1 /\ xi = 0 /\ zi = last -> Some(edges.north[last])
          [] dx = -1 /\ dz = -1 /\ xi = last /\ zi = last -> Some(edges.north[0])
          [] OTHER -> None

\* ChunkEdgeHeights::shared_height; edges is the stale chunk's record.
SharedHeight(edges, chunk_x, chunk_z, xi, zi, stale_x, stale_z, res) ==
    LET dx == chunk_x - stale_x
        dz == chunk_z - stale_z
        last == res - 1
    IN  CASE dx = 1 /\ dz = 0 /\ xi = 0 -> Some(edges.east[zi])
          [] dx = -1 /\ dz = 0 /\ xi = last -> Some(edges.west[zi])
          [] dx = 0 /\ dz = 1 /\ zi = 0 -> Some(edges.south[xi])
          [] dx = 0 /\ dz = -1 /\ zi = last -> Some(edges.north[xi])
          [] dx = 1 /\ dz = 1 /\ xi = 0 /\ zi = 0 -> Some(edges.south[last])
          [] dx = -1 /\ dz = 1 /\ xi = last /\ zi = 0 -> Some(edges.south[0])
          [] dx = 1 /\ dz = -1 /\ xi = 0 /\ zi = last -> Some(edges.north[last])
          [] dx = -1 /\ dz = -1 /\ xi = last /\ zi = last -> Some(edges.north[0])
          [] OTHER -> None

\* Mutant of TerrainHeight: the blend runs from the live height to the old one.
TerrainHeightSwapped(wx, wz, s, noise_scale, chunk_size, stale_opt) ==
    LET p == NoisePoint(s, wx, wz, noise_scale)
        h == SampleHeight(p)
    IN  IF stale_opt # None
        THEN LET st == stale_opt[1]
                 t == BlendFactor(wx, wz, st, chunk_size)
             IN  IF t < SmoothDen(0, chunk_size)
                 THEN Lerp(p, NoisePoint(st.sampler, wx, wz, noise_scale), t)
                 ELSE h
        ELSE h

\* terrain_height; stale is an Option<StaleRegion>.
TerrainHeight(wx, wz, s, noise_scale, chunk_size, stale_opt) ==
    LET p == NoisePoint(s, wx, wz, noise_scale)
        h == SampleHeight(p)
    IN  IF stale_opt # None
        THEN LET st == stale_opt[1]
                 t == BlendFactor(wx, wz, st, chunk_size)
             IN  IF t < SmoothDen(0, chunk_size)
                 THEN Lerp(NoisePoint(st.sampler, wx, wz, noise_scale), p, t)
                 ELSE h
        ELSE h

\* stale.and_then(|s| s.edge_heights.shared_height(...)) for vertex (xi, zi)
\* of the chunk being generated.
StaleSharedHeight(chunk_x, chunk_z, xi, zi, res, stale_opt) ==
    IF stale_opt = None THEN None
    ELSE SharedHeight(stale_opt[1].edge_heights, chunk_x, chunk_z, xi, zi,
                      stale_opt[1].grid_pos[1], stale_opt[1].grid_pos[2], res)

\* Height of vertex (xi, zi) of the chunk being generated.
VertexHeight(chunk_x, chunk_z, xi, zi, cfg, s, stale_opt) ==
    LET size == cfg.chunk_size
        res == cfg.chunk_resolution
        step == size \div (res - 1)
        wx == chunk_x * size + xi * step
        wz == chunk_z * size + zi * step
        shared == StaleSharedHeight(chunk_x, chunk_z, xi, zi, res, stale_opt)
    IN  IF shared # None THEN shared[1]
        ELSE TerrainHeight(wx, wz, s, cfg.noise_scale, size, stale_opt)

\* Mutant of GenerateChunkMesh: the south array is read one row short of the
\* last.
GenerateChunkMeshSouthShort(chunk_x, chunk_z, cfg, s, stale_opt) ==
    LET res == cfg.chunk_resolution
        positions ==
            [i \in 0..(res * res - 1) |->
                VertexHeight(chunk_x, chunk_z, i % res, i \div res, cfg, s, stale_opt)]
    IN  [positions |-> positions,
         edge_indices |-> 0..(res - 1),
         edge_heights |->
            [north |-> [xi \in 0..4 |-> IF xi < res THEN positions[xi] ELSE ZeroHeight],
             south |-> [xi \in 0..4 |->
                          IF xi < res THEN positions[(res - 2) * res + xi]
                          ELSE ZeroHeight],
             west |-> [zi \in 0..4 |-> IF zi < res THEN positions[zi * res] ELSE ZeroHeight],
             east |-> [zi \in 0..4 |->
                         IF zi < res THEN positions[zi * res + (res - 1)]
                         ELSE ZeroHeight]]]

\* generate_chunk_mesh: the vertex heights (positions[zi * res + xi][1]), the
\* indices at which its last two loops write the edge arrays, and the
\* ChunkEdgeHeights it returns if none of them is out of range.  Normals and triangle indices go to the
\* renderer only.
GenerateChunkMesh(chunk_x, chunk_z, cfg, s, stale_opt) ==
    LET res == cfg.chunk_resolution
        positions ==
            [i \in 0..(res * res - 1) |->
                VertexHeight(chunk_x, chunk_z, i % res, i \div res, cfg, s, stale_opt)]
    IN  [positions |-> positions,
         edge_indices |-> 0..(res - 1),
         edge_heights |->
            [north |-> [xi \in 0..4 |-> IF xi < res THEN positions[xi] ELSE ZeroHeight],
             south |-> [xi \in 0..4 |->
                          IF xi < res THEN positions[(res - 1) * res + xi]
                          ELSE ZeroHeight],
             west |-> [zi \in 0..4 |-> IF zi < res THEN positions[zi * res] ELSE ZeroHeight],
             east |-> [zi \in 0..4 |->
                         IF zi < res THEN positions[zi * res + (res - 1)]
                         ELSE ZeroHeight]]]


(***************************************************************************)
(* State.                                                                  *)
(***************************************************************************)
VARIABLES
    config,             \* TerrainConfig (and the spawn cap), fixed per run
    section,            \* State<Sections>
    phase,              \* the system of the frame that runs next
    player_present,     \* whether exactly one Player entity exists
    player,             \* the Player's Transform: pos <<x, z>>, forward <<x, z>>, y
    sampler,            \* Res<NoiseSampler>
    stale,              \* Res<StaleChunk>: Option<StaleRegion>
    spawned,            \* Res<SpawnedChunks>
    chunks,             \* live TerrainChunk entities: [grid_pos, edge_heights]
    colours,            \* Res<ChunkColours>
    rotation_count,     \* Res<RotationCount>
    spawned_this_frame, \* manage_chunks' counter when it last returned
    fresh_cells,        \* the cells manage_chunks spawned when it last ran
    before_rotation,    \* sampler, stale, count and chunks when detect_rotation last started,
                        \* whether it found a rotation due, and the sector it classified
    rotations_total,    \* rotations since the program started
    dream,              \* DreamSettings of the Player: rotation bumps added to intensity
                        \* since it was last zeroed; whether chase_dream_ramp ran this frame
    draw                \* the running call of random_orthogonal_dir3: its axis, the
                        \* vectors rejected so far (all of them, and those
                        \* random_unit_vec3 returned) and the direction returned

vars == <<config, section, phase, player_present, player, sampler, stale, spawned,
          chunks, colours, rotation_count, spawned_this_frame, fresh_cells,
          before_rotation, rotations_total, dream, draw>>

terrain_vars == <<sampler, stale, spawned, chunks, colours, rotation_count,
                  spawned_this_frame, fresh_cells, before_rotation, rotations_total,
                  dream>>

\* Horizontal forward vectors the observer is turned to: the four cardinal
\* directions and one diagonal (a tie of |x| and |z|).
Forwards ==
    {<<0, -1>>, <<1, -1>>, <<1, 0>>, <<0, 1>>, <<-1, 0>>}

\* Mutant of Sector: a tie of |x| and |z| goes to East or West.
SectorTieEastWest(forward) ==
    IF Abs(forward[2]) > Abs(forward[1])
    THEN IF forward[2] < 0 THEN "North" ELSE "South"
    ELSE IF forward[1] > 0 THEN "East" ELSE "West"

\* The facing sector of detect_rotation.
Sector(forward) ==
    IF Abs(forward[2]) >= Abs(forward[1])
    THEN IF forward[2] < 0 THEN "North" ELSE "South"
    ELSE IF forward[1] > 0 THEN "East" ELSE "West"

\* (pos / chunk_size).floor() as i32, per coordinate.
GridOf(pos, chunk_size) == <<pos[1] \div chunk_size, pos[2] \div chunk_size>>

\* ((grid + 0.5) * chunk_size), per coordinate.
CenterOf(grid, chunk_size) ==
    <<grid[1] * chunk_size + chunk_size \div 2, grid[2] * chunk_size + chunk_size \div 2>>

\* Rotations detect_rotation needs until the sampler faces sector.
TurnsNeeded(axis, sector) ==
    IF sector = axis THEN 0
    ELSE IF sector = AxisRight(axis) \/ sector = AxisLeft(axis) THEN 1 ELSE 2

\* DreamSettings { intensity: 0.0, .. } of spawn_player.
NoDream == [bumps |-> 0, ramped |-> FALSE]

InitialColours == [quadrant_colours |-> <<0, 1, 0, 0>>, next_colour |-> 2]

\* Transform::from_xyz(0.0, 10.0, 0.0), facing -Z.
InitialPlayer == [pos |-> <<0, 0>>, forward |-> <<0, -1>>, y |-> ZeroHeight]

InitWith(cfg) ==
    /\ config = cfg
    /\ section = "Menu"
    /\ phase = "look"
    /\ player_present = TRUE
    /\ player = InitialPlayer
    /\ sampler = DefaultSampler
    /\ stale = None
    /\ spawned = {}
    /\ chunks = {}
    /\ colours = InitialColours
    /\ rotation_count = 0
    /\ spawned_this_frame = 0
    /\ fresh_cells = {}
    /\ before_rotation = [sampler |-> DefaultSampler, stale |-> None,
                          rotation_count |-> 0, chunks |-> {}, rotated |-> FALSE,
                          sector |-> "North"]
    /\ rotations_total = 0
    /\ draw = NoDraw
    /\ dream = NoDream

Init == InitWith(SmallConfig)

(***************************************************************************)
(* Object scatter (objects.rs).                                            *)
(***************************************************************************)
\* BlueNoisePoints: points of the unit square, as numerators over PointDen,
\* in the order the scatterer visits them.
BlueNoisePoints == <<<<0, 0>>, <<1, 0>>, <<0, 1>>, <<1, 1>>>>

\* The lengths of the four handle lists of load_terrain_objects.
TerrainObjectAssets ==
    [trees |-> 10, dead_trees |-> 5, rocks |-> 3, ground_cover |-> 30]

\* Mutant of HashVec3: the hash is salted with where the observer stands.
HashVec3Salted(p) ==
    LET d == 1271 * p[1] + 3117 * p[2] + 747 * p[3] + player.pos[1] + 3 * player.pos[2]
    IN  (((Abs(d) % HashDen) * 43758) + 545) % HashDen

\* hash_vec3: a value of [0, 1), in units of 1/HashDen.  The dot product keeps
\* the source's coefficients (in tenths); the sine cannot be computed here, so
\* the fractional part of sin(d) * 43758.545 is replaced by the fractional
\* part of d * 43758.545 taken in units of 1/HashDen.
HashVec3(p) ==
    LET d == 1271 * p[1] + 3117 * p[2] + 747 * p[3]
    IN  (((Abs(d) % HashDen) * 43758) + 545) % HashDen

\* pick: the index (frac * items.len()) as usize, at most len - 1.
Pick(len, frac) == Min((frac * len) \div HashDen, len - 1)

\* The category and variant index chosen at noise point p, or None.
SceneAt(p, assets) ==
    LET t == HashVec3(p)
    IN  IF t * 1000 > 998 * HashDen /\ t < HashDen
        THEN Some([category |-> "dead_trees",
                   variant |-> Pick(assets.dead_trees, HashVec3(Add3(p, DirX)))])
        ELSE IF t * 1000 > 995 * HashDen
        THEN Some([category |-> "rocks",
                   variant |-> Pick(assets.rocks, HashVec3(Add3(p, DirY)))])
        ELSE IF t * 1000 > 985 * HashDen
        THEN Some([category |-> "trees",
                   variant |-> Pick(assets.trees, HashVec3(Add3(p, DirX)))])
        ELSE IF t * 1000 > 930 * HashDen
        THEN Some([category |-> "ground_cover",
                   variant |-> Pick(assets.ground_cover, HashVec3(Add3(p, DirZ)))])
        ELSE None

\* The objects spawned for the points from index i on, in spawn order.
RECURSIVE ScatterFrom(_, _, _, _, _, _, _, _)
ScatterFrom(i, chunk_x, chunk_z, cfg, s, stale_opt, points, assets) ==
    IF i > Len(points) THEN <<>>
    ELSE LET size == cfg.chunk_size
             wx == chunk_x * size + (points[i][1] * size) \div PointDen
             wz == chunk_z * size + (points[i][2] * size) \div PointDen
             scene == SceneAt(NoisePoint(s, wx, wz, cfg.noise_scale), assets)
             rest == ScatterFrom(i + 1, chunk_x, chunk_z, cfg, s, stale_opt, points,
                                 assets)
         IN  IF scene = None THEN rest
             ELSE <<[point |-> i,
                     category |-> scene[1].category,
                     variant |-> scene[1].variant,
                     pos |-> <<wx,
                               TerrainHeight(wx, wz, s, cfg.noise_scale, size, stale_opt),
                               wz>>]>> \o rest

\* spawn_chunk_objects: the children it spawns under the chunk entity.
SpawnChunkObjects(chunk_x, chunk_z, cfg, s, stale_opt, points, assets) ==
    ScatterFrom(1, chunk_x, chunk_z, cfg, s, stale_opt, points, assets)

(***************************************************************************)
(* Section transitions.                                                    *)
(***************************************************************************)
\* menu.rs button_actions sets Sections::Chase; OnEnter(Chase) runs
\* reset_chase_state and reset_player.
EnterChase ==
    /\ section = "Menu"
    /\ rotations_total + TurnsNeeded(sampler.visible_axis, "North") <= MaxRotations
    /\ section' = "Chase"
    /\ phase' = "look"
    /\ rotation_count' = 0
    /\ player' = IF player_present
                 THEN [player EXCEPT !.pos = <<0, 0>>, !.forward = <<0, -1>>]
                 ELSE player
    /\ dream' = IF player_present THEN NoDream ELSE dream
    /\ UNCHANGED <<config, draw, player_present, sampler, stale, spawned, chunks, colours,
                   spawned_this_frame, fresh_cells, before_rotation, rotations_total>>

\* Mutant of ExitChase: the chunk entities go, SpawnedChunks is not cleared.
ExitChaseKeepsSet ==
    /\ section = "Chase"
    /\ phase \in {"look", "ramp"}
    /\ section' = "Underworld"
    /\ phase' = "look"
    /\ chunks' = {}
    /\ spawned_this_frame' = 0
    /\ fresh_cells' = {}
    /\ before_rotation' = [sampler |-> DefaultSampler, stale |-> None,
                           rotation_count |-> 0, chunks |-> {}, rotated |-> FALSE,
                          sector |-> "North"]
    /\ dream' = IF player_present THEN NoDream ELSE dream
    /\ UNCHANGED <<config, draw, player_present, player, sampler, stale, spawned, colours,
                   rotation_count, rotations_total>>

\* chase_npc_vanish sets Sections::Underworld; OnExit(Chase) runs exit_chase.
\* The transition is applied between two frames; chase_dream_ramp is not
\* ordered against the terrain systems, so the frame may end before or after it.
ExitChase ==
    /\ section = "Chase"
    /\ phase \in {"look", "ramp"}
    /\ section' = "Underworld"
    /\ phase' = "look"
    /\ chunks' = {}
    /\ spawned' = {}
    /\ spawned_this_frame' = 0
    /\ fresh_cells' = {}
    /\ before_rotation' = [sampler |-> DefaultSampler, stale |-> None,
                           rotation_count |-> 0, chunks |-> {}, rotated |-> FALSE,
                          sector |-> "North"]
    /\ dream' = IF player_present THEN NoDream ELSE dream
    /\ UNCHANGED <<config, draw, player_present, player, sampler, stale, colours,
                   rotation_count, rotations_total>>

\* Underworld -> Stairs -> Awaken -> Menu; none of them touches the terrain
\* resources, and reset_player overwrites what they do to the Player.
AdvanceSection ==
    /\ section \in {"Underworld", "Stairs", "Awaken"}
    /\ section' = CASE section = "Underworld" -> "Stairs"
                    [] section = "Stairs" -> "Awaken"
                    [] section = "Awaken" -> "Menu"
    /\ UNCHANGED <<config, draw, phase, player_present, player>>
    /\ UNCHANGED terrain_vars

(***************************************************************************)
(* The observer's controller, once per frame before the terrain systems.   *)
(***************************************************************************)
\* mouse_look turning the Player to one of the forward vectors fs, while the
\* run stays within turns rotations.
LookIn(fs, turns) ==
    /\ section = "Chase"
    /\ phase = "look"
    /\ \E f \in fs :
        /\ rotations_total + TurnsNeeded(sampler.visible_axis, Sector(f)) <= turns
        /\ player' = IF player_present THEN [player EXCEPT !.forward = f] ELSE player
    /\ phase' = "move"
    /\ UNCHANGED <<config, draw, section, player_present>>
    /\ UNCHANGED terrain_vars

\* player_movement moving the Player by one of the steps ks along its
\* forward, within bound of the world origin.
MoveIn(ks, bound) ==
    /\ section = "Chase"
    /\ phase = "move"
    /\ \E k \in ks :
        LET pos == Add2(player.pos, Scale2(k, player.forward))
        IN  /\ Abs(pos[1]) <= bound
            /\ Abs(pos[2]) <= bound
            /\ player' = IF player_present THEN [player EXCEPT !.pos = pos] ELSE player
    /\ phase' = "rotation"
    /\ UNCHANGED <<config, draw, section, player_present>>
    /\ UNCHANGED terrain_vars

\* mouse_look: the accumulated mouse motion turns the Player to any yaw.
MouseLook == LookIn(Forwards, MaxRotations)

\* player_movement: W and/or S move the Player along its horizontal forward.
PlayerMovement == MoveIn({-1, 0, 1}, PosBound)

(***************************************************************************)
(* The terrain systems of a frame, chained in this order:                  *)
(* detect_rotation, update_origin, manage_chunks, follow_terrain_height.   *)
(***************************************************************************)
\* Mutant of BehindOrigin: the observer's own cell is tested like any other.
BehindOriginOwnIncluded(cs, dir_2d, origin_along, own_grid, cfg) ==
    {c \in cs : Dot2(CenterOf(c.grid_pos, cfg.chunk_size), dir_2d) < origin_along}

\* Chunk entities whose center lies behind origin_along along dir_2d,
\* the observer's own cell excepted.
BehindOrigin(cs, dir_2d, origin_along, own_grid, cfg) ==
    {c \in cs : /\ c.grid_pos # own_grid
                /\ Dot2(CenterOf(c.grid_pos, cfg.chunk_size), dir_2d) < origin_along}

\* Mutant of CaptureStale: the snapshot is taken whatever the quadrant.
CaptureStaleAnywhere(stale_opt, s, player_grid, retiring, cs, cfg) ==
    LET own == {c \in cs : c.grid_pos = player_grid}
    IN  IF (stale_opt = None \/ stale_opt[1].grid_pos # player_grid) /\ own # {}
        THEN {Some([sampler |-> s, grid_pos |-> player_grid,
                    edge_heights |-> c.edge_heights]) : c \in own}
        ELSE {stale_opt}

\* The stale snapshot after detect_rotation's capture step.
CaptureStale(stale_opt, s, player_grid, retiring, cs, cfg) ==
    LET player_center == CenterOf(player_grid, cfg.chunk_size)
        player_quadrant == QuadrantAt(s, player_center[1], player_center[2])
        own == {c \in cs : c.grid_pos = player_grid}
    IN  IF /\ player_quadrant = retiring
           /\ (stale_opt = None \/ stale_opt[1].grid_pos # player_grid)
           /\ own # {}
        THEN {Some([sampler |-> s, grid_pos |-> player_grid,
                    edge_heights |-> c.edge_heights]) : c \in own}
        ELSE {stale_opt}

\* The stale snapshot after chunks gone were despawned.
ClearStale(stale_opt, gone) ==
    IF stale_opt # None /\ \E c \in gone : c.grid_pos = stale_opt[1].grid_pos
    THEN None
    ELSE stale_opt

\* Whether detect_rotation takes the rotate_right branch.
RotatingRight(axis, sector) == sector = AxisRight(axis)

\* The quadrant detect_rotation retires.
Retiring(axis, sector) ==
    IF RotatingRight(axis, sector) THEN LeftQuadrant(axis) ELSE RightQuadrant(axis)

\* Mutant of Rotated: detect_rotation keeps the sampler it has.
NotRotated(s, sector, player_pos, cfg) == {s}

\* The rotated samplers detect_rotation can obtain.
Rotated(s, sector, player_pos, cfg) ==
    IF RotatingRight(s.visible_axis, sector)
    THEN {RotateRight(s, player_pos, cfg.chunk_size, cfg.noise_scale, fresh) :
            fresh \in RandomOrthogonalDir3(s.right_axis)}
    ELSE {RotateLeft(s, player_pos, cfg.chunk_size, cfg.noise_scale, fresh) :
            fresh \in RandomOrthogonalDir3(s.left_axis)}

\* The quadrant that gets the next debug colour.
FreshQuadrant(axis, sector) ==
    IF RotatingRight(axis, sector) THEN RightQuadrant(sector) ELSE LeftQuadrant(sector)

\* Mutant of CountUp: a rotation is counted twice.
CountTwice(n) == n + 2

\* rotation_count.0 += 1 (a u32: no run here comes near its width).
CountUp(n) == n + 1

DetectRotation ==
    /\ section = "Chase"
    /\ phase = "rotation"
    /\ phase' = "origin"
    /\ LET sector == Sector(player.forward)
           player_grid == GridOf(player.pos, config.chunk_size)
           due == player_present /\ sector # sampler.visible_axis
       IN  /\ before_rotation' =
                [sampler |-> sampler, stale |-> stale, rotation_count |-> rotation_count,
                 chunks |-> chunks, rotated |-> due,
                 sector |-> IF player_present THEN sector ELSE "North"]
           /\ IF ~due
              THEN UNCHANGED <<sampler, stale, spawned, chunks, colours, rotation_count,
                               rotations_total>>
              ELSE \E captured \in CaptureStale(stale, sampler, player_grid,
                                                Retiring(sampler.visible_axis, sector),
                                                chunks, config),
                      new_sampler \in Rotated(sampler, sector, player.pos, config) :
                    LET new_visible_2d == Dir2d(sector)
                        origin_along == Dot2(new_sampler.quadrant_origin, new_visible_2d)
                        gone == BehindOrigin(chunks, new_visible_2d, origin_along,
                                             player_grid, config)
                    IN  /\ stale' = ClearStale(captured, gone)
                        /\ chunks' = chunks \ gone
                        /\ spawned' = spawned \ {c.grid_pos : c \in gone}
                        /\ sampler' = new_sampler
                        /\ colours' =
                            [quadrant_colours |->
                                [colours.quadrant_colours EXCEPT
                                    ![QuadrantIndex(FreshQuadrant(sampler.visible_axis,
                                                                  sector)) + 1] =
                                        colours.next_colour],
                             next_colour |-> ColourNext(colours.next_colour)]
                        /\ rotation_count' = CountUp(rotation_count)
                        /\ rotations_total' = rotations_total + 1
    /\ UNCHANGED <<config, draw, section, player_present, player, spawned_this_frame,
                   fresh_cells, dream>>

\* Mutant of UpdateOrigin: the origin slides whether or not the Player is there.
UpdateOriginUnguarded ==
    /\ section = "Chase"
    /\ phase = "origin"
    /\ phase' = "chunks"
    /\ sampler' = SlideOrigin(sampler, player.pos, config.chunk_size,
                              config.noise_scale)
    /\ UNCHANGED <<config, draw, section, player_present, player, stale, spawned, chunks,
                   colours, rotation_count, spawned_this_frame, fresh_cells,
                   before_rotation, rotations_total, dream>>

UpdateOrigin ==
    /\ section = "Chase"
    /\ phase = "origin"
    /\ phase' = "chunks"
    /\ sampler' = IF player_present
                  THEN SlideOrigin(sampler, player.pos, config.chunk_size,
                                   config.noise_scale)
                  ELSE sampler
    /\ UNCHANGED <<config, draw, section, player_present, player, stale, spawned, chunks,
                   colours, rotation_count, spawned_this_frame, fresh_cells,
                   before_rotation, rotations_total, dream>>

\* Mutant of TooFarOrBehind: the behind test is left out.
OnlyTooFar(grid, player_c, visible_2d, cfg) ==
    LET dx == grid[1] - player_c[1]
        dz == grid[2] - player_c[2]
        radius == cfg.render_radius
    IN  dx * dx + dz * dz > (radius + 2) * (radius + 2)

\* Mutant of TooFarOrBehind: the distance test is left out.
OnlyBehind(grid, player_c, visible_2d, cfg) ==
    LET player_along == Dot2(CenterOf(player_c, cfg.chunk_size), visible_2d)
    IN  Dot2(CenterOf(grid, cfg.chunk_size), visible_2d) < player_along

\* manage_chunks' despawn test for the chunk at grid.
TooFarOrBehind(grid, player_c, visible_2d, cfg) ==
    LET dx == grid[1] - player_c[1]
        dz == grid[2] - player_c[2]
        dist_sq == dx * dx + dz * dz
        radius == cfg.render_radius
        too_far == dist_sq > (radius + 2) * (radius + 2)
        player_along == Dot2(CenterOf(player_c, cfg.chunk_size), visible_2d)
        behind == Dot2(CenterOf(grid, cfg.chunk_size), visible_2d) < player_along
    IN  too_far \/ behind

\* manage_chunks' test that the unspawned cell grid is to be generated.
Wanted(grid, player_c, visible_2d, cfg) ==
    LET dx == grid[1] - player_c[1]
        dz == grid[2] - player_c[2]
        radius_sq == cfg.render_radius * cfg.render_radius
        player_along == Dot2(CenterOf(player_c, cfg.chunk_size), visible_2d)
    IN  /\ ~(dx * dx + dz * dz > radius_sq)
        /\ ~(Dot2(CenterOf(grid, cfg.chunk_size), visible_2d) < player_along)

RECURSIVE SpawnRowUncapped(_, _, _, _, _, _, _)
\* Mutant of SpawnRow: the per-frame cap is not tested.
SpawnRowUncapped(i, cz, acc, have, player_c, visible_2d, cfg) ==
    LET cell == <<player_c[1] - cfg.render_radius + i, cz>>
    IN  IF i >= 2 * cfg.render_radius THEN acc
        ELSE IF cell \in have
             THEN SpawnRowUncapped(i + 1, cz, acc, have, player_c, visible_2d, cfg)
        ELSE IF ~Wanted(cell, player_c, visible_2d, cfg)
             THEN SpawnRowUncapped(i + 1, cz, acc, have, player_c, visible_2d, cfg)
        ELSE SpawnRowUncapped(i + 1, cz, acc \cup {cell}, have, player_c, visible_2d, cfg)

RECURSIVE SpawnRow(_, _, _, _, _, _, _)
\* The inner loop of manage_chunks' spawn scan: row cz from column index i
\* on (cx over player - radius .. player + radius - 1), given the cells acc
\* generated so far in this frame.
SpawnRow(i, cz, acc, have, player_c, visible_2d, cfg) ==
    LET cell == <<player_c[1] - cfg.render_radius + i, cz>>
    IN  IF i >= 2 * cfg.render_radius THEN acc
        ELSE IF Cardinality(acc) >= cfg.max_spawns THEN acc
        ELSE IF cell \in have
             THEN SpawnRow(i + 1, cz, acc, have, player_c, visible_2d, cfg)
        ELSE IF ~Wanted(cell, player_c, visible_2d, cfg)
             THEN SpawnRow(i + 1, cz, acc, have, player_c, visible_2d, cfg)
        ELSE SpawnRow(i + 1, cz, acc \cup {cell}, have, player_c, visible_2d, cfg)

RECURSIVE SpawnScan(_, _, _, _, _, _)
\* The outer loop from row index j on (cz over player - radius ..
\* player + radius - 1): the cells the frame generates.
SpawnScan(j, acc, have, player_c, visible_2d, cfg) ==
    IF j >= 2 * cfg.render_radius THEN acc
    ELSE IF Cardinality(acc) >= cfg.max_spawns THEN acc
    ELSE SpawnScan(j + 1,
                   SpawnRow(0, player_c[2] - cfg.render_radius + j, acc, have,
                            player_c, visible_2d, cfg),
                   have, player_c, visible_2d, cfg)

\* Mutant of ManageChunks: the chunks are generated with the sampler the tick
\* started with.
ManageChunksOldSampler ==
    /\ section = "Chase"
    /\ phase = "chunks"
    /\ phase' = "follow"
    /\ IF ~player_present
       THEN UNCHANGED <<stale, spawned, chunks, spawned_this_frame, fresh_cells>>
       ELSE LET player_c == GridOf(player.pos, config.chunk_size)
                visible_2d == Dir2d(sampler.visible_axis)
                gone == {c \in chunks :
                            TooFarOrBehind(c.grid_pos, player_c, visible_2d, config)}
                stale_ref == ClearStale(stale, gone)
                have == spawned \ {c.grid_pos : c \in gone}
                made == SpawnScan(0, {}, have, player_c, visible_2d, config)
                held == IF before_rotation.rotated THEN before_rotation.sampler
                        ELSE sampler
            IN  /\ stale' = stale_ref
                /\ spawned' = have \cup made
                /\ chunks' = (chunks \ gone) \cup
                     {[grid_pos |-> g,
                       edge_heights |->
                         GenerateChunkMesh(g[1], g[2], config, held,
                                           stale_ref).edge_heights,
                       objects |->
                         SpawnChunkObjects(g[1], g[2], config, held, stale_ref,
                                           BlueNoisePoints, TerrainObjectAssets)] :
                        g \in made}
                /\ spawned_this_frame' = Cardinality(made)
                /\ fresh_cells' = made
    /\ UNCHANGED <<config, draw, section, player_present, player, sampler, colours,
                   rotation_count, before_rotation, rotations_total, dream>>

ManageChunks ==
    /\ section = "Chase"
    /\ phase = "chunks"
    /\ phase' = "follow"
    /\ IF ~player_present
       THEN UNCHANGED <<stale, spawned, chunks, spawned_this_frame, fresh_cells>>
       ELSE LET player_c == GridOf(player.pos, config.chunk_size)
                visible_2d == Dir2d(sampler.visible_axis)
                gone == {c \in chunks :
                            TooFarOrBehind(c.grid_pos, player_c, visible_2d, config)}
                stale_ref == ClearStale(stale, gone)
                have == spawned \ {c.grid_pos : c \in gone}
                made == SpawnScan(0, {}, have, player_c, visible_2d, config)
            IN  /\ stale' = stale_ref
                /\ spawned' = have \cup made
                /\ chunks' = (chunks \ gone) \cup
                     {[grid_pos |-> g,
                       edge_heights |->
                         GenerateChunkMesh(g[1], g[2], config, sampler,
                                           stale_ref).edge_heights,
                       objects |->
                         SpawnChunkObjects(g[1], g[2], config, sampler, stale_ref,
                                           BlueNoisePoints, TerrainObjectAssets)] :
                        g \in made}
                /\ spawned_this_frame' = Cardinality(made)
                /\ fresh_cells' = made
    /\ UNCHANGED <<config, draw, section, player_present, player, sampler, colours,
                   rotation_count, before_rotation, rotations_total, dream>>

FollowTerrainHeight ==
    /\ section = "Chase"
    /\ phase = "follow"
    /\ phase' = "ramp"
    /\ player' = IF player_present
                 THEN [player EXCEPT !.y =
                        TerrainHeight(player.pos[1], player.pos[2], sampler,
                                      config.noise_scale, config.chunk_size, stale)]
                 ELSE player
    /\ UNCHANGED <<config, draw, section, player_present>>
    /\ UNCHANGED terrain_vars

\* What the bookkeeping variables hold between two frames.
NoFrame ==
    [sampler |-> DefaultSampler, stale |-> None, rotation_count |-> 0, chunks |-> {},
     rotated |-> FALSE, sector |-> "North"]

\* settings.intensity += DREAM_ROTATION_BUMP * rotations, in bumps.
RotationBumps(bumps, rotations) == bumps + rotations

\* chase_dream_ramp: one intensity bump per counted rotation, then the reset.
\* DreamSettings is a component of the Player entity.
DreamRamp ==
    /\ rotation_count' = IF player_present /\ rotation_count > 0 THEN 0
                         ELSE rotation_count
    /\ dream' = [bumps |-> IF player_present /\ rotation_count > 0
                           THEN RotationBumps(dream.bumps, rotation_count)
                           ELSE dream.bumps,
                 ramped |-> phase # "ramp"]

\* The frame ending with chase_dream_ramp as its last system (unless it has
\* run earlier in the frame); the frame's bookkeeping ends with it.
ChaseDreamRamp ==
    /\ section = "Chase"
    /\ phase = "ramp"
    /\ phase' = "look"
    /\ IF dream.ramped
       THEN /\ dream' = [dream EXCEPT !.ramped = FALSE]
            /\ UNCHANGED rotation_count
       ELSE DreamRamp
    /\ spawned_this_frame' = 0
    /\ fresh_cells' = {}
    /\ before_rotation' = NoFrame
    /\ UNCHANGED <<config, draw, section, player_present, player, sampler, stale, spawned,
                   chunks, colours, rotations_total>>

Next ==
    \/ EnterChase
    \/ ExitChase
    \/ AdvanceSection
    \/ MouseLook
    \/ PlayerMovement
    \/ DetectRotation
    \/ UpdateOrigin
    \/ ManageChunks
    \/ FollowTerrainHeight
    \/ ChaseDreamRamp

Spec == Init /\ [][Next]_vars

(***************************************************************************)
(* The sampler on its own: slide_origin, rotate_left and rotate_right      *)
(* applied to samplers and observer positions drawn from bounded sets.     *)
(***************************************************************************)
\* Axis triples <<left, center, right>> with both side axes orthogonal to
\* the center axis, as Default and the rotations keep them.
AxisTriples ==
    {t \in {DirNegX, DirY} \X {DirNegZ, DirX} \X {DirX, DirY, DirZ} :
        Dot3(t[1], t[2]) = 0 /\ Dot3(t[3], t[2]) = 0}

\* The default sampler, and samplers on every visible axis and axis triple
\* with both origins away from zero.
SamplerInputs ==
    {DefaultSampler} \cup
    {[visible_axis |-> a, left_axis |-> t[1], center_axis |-> t[2], right_axis |-> t[3],
      noise_origin |-> <<1, -2, 3>>, quadrant_origin |-> <<-2, 2>>] :
        a \in VisibleAxis, t \in AxisTriples}

\* Observer positions within the bound.
Positions == (-PosBound..PosBound) \X (-PosBound..PosBound)

\* World points the sampler is compared at.
WorldRange == (-(PosBound + SmallRadius + 1))..(PosBound + SmallRadius + 1)

SamplerInit ==
    /\ config = SmallConfig
    /\ section = "Menu"
    /\ phase = "sampler"
    /\ player_present = TRUE
    /\ player = InitialPlayer
    /\ sampler \in SamplerInputs
    /\ stale = None
    /\ spawned = {}
    /\ chunks = {}
    /\ colours = InitialColours
    /\ rotation_count = 0
    /\ spawned_this_frame = 0
    /\ fresh_cells = {}
    /\ before_rotation = NoFrame
    /\ rotations_total = 0
    /\ draw = NoDraw
    /\ dream = NoDream

SamplerFrame ==
    UNCHANGED <<config, draw, section, player_present, player, stale, spawned, chunks, colours,
                rotation_count, spawned_this_frame, fresh_cells, dream>>

ApplySlideOrigin ==
    /\ phase \in {"sampler", "slid", "rotated_left", "rotated_right"}
    /\ \E pos \in Positions :
        sampler' = SlideOrigin(sampler, pos, config.chunk_size, config.noise_scale)
    /\ before_rotation' = [NoFrame EXCEPT !.sampler = sampler]
    /\ phase' = "slid"
    /\ UNCHANGED rotations_total
    /\ SamplerFrame

ApplyRotateLeft ==
    /\ phase \in {"sampler", "slid", "rotated_left", "rotated_right"}
    /\ rotations_total < MaxRotations
    /\ \E pos \in Positions, fresh \in RandomOrthogonalDir3(sampler.left_axis) :
        sampler' = RotateLeft(sampler, pos, config.chunk_size, config.noise_scale, fresh)
    /\ before_rotation' = [NoFrame EXCEPT !.sampler = sampler, !.rotated = TRUE]
    /\ phase' = "rotated_left"
    /\ rotations_total' = rotations_total + 1
    /\ SamplerFrame

ApplyRotateRight ==
    /\ phase \in {"sampler", "slid", "rotated_left", "rotated_right"}
    /\ rotations_total < MaxRotations
    /\ \E pos \in Positions, fresh \in RandomOrthogonalDir3(sampler.right_axis) :
        sampler' = RotateRight(sampler, pos, config.chunk_size, config.noise_scale, fresh)
    /\ before_rotation' = [NoFrame EXCEPT !.sampler = sampler, !.rotated = TRUE]
    /\ phase' = "rotated_right"
    /\ rotations_total' = rotations_total + 1
    /\ SamplerFrame

SamplerNext ==
    \/ ApplySlideOrigin
    \/ ApplyRotateLeft
    \/ ApplyRotateRight

SamplerSpec == SamplerInit /\ [][SamplerNext]_vars

(***************************************************************************)
(* Claims.                                                                 *)
(***************************************************************************)
\* The quadrant that stays in view across the rotation that just ran.
Surviving(old) ==
    IF phase = "rotated_right" THEN RightQuadrant(old.visible_axis)
    ELSE LeftQuadrant(old.visible_axis)

\* C1 - Rotation continuity: after rotate_left or rotate_right, every world
\* point that the pre-rotation sampler puts in the surviving quadrant (the old
\* right quadrant for rotate_right, the old left one for rotate_left) has the
\* same noise point, and so the same terrain height, under the sampler the
\* rotation returned as under the pre-rotation sampler.
C1_RotationContinuity ==
    phase \in {"rotated_left", "rotated_right"} =>
        \A wx \in WorldRange, wz \in WorldRange :
            QuadrantAt(before_rotation.sampler, wx, wz) = Surviving(before_rotation.sampler)
            => /\ NoisePoint(sampler, wx, wz, config.noise_scale) =
                    NoisePoint(before_rotation.sampler, wx, wz, config.noise_scale)
               /\ TerrainHeight(wx, wz, sampler, config.noise_scale, config.chunk_size,
                                None) =
                    TerrainHeight(wx, wz, before_rotation.sampler, config.noise_scale,
                                  config.chunk_size, None)

\* C1 witness: a rotate_right that moved the origin and changed the noise
\* point of some point outside the surviving quadrant, while a point of the
\* surviving quadrant off the new seam exists.
C1_Witness ==
    /\ phase = "rotated_right"
    /\ sampler.quadrant_origin # before_rotation.sampler.quadrant_origin
    /\ sampler.noise_origin # before_rotation.sampler.noise_origin
    /\ \E wx \in WorldRange, wz \in WorldRange :
        /\ QuadrantAt(before_rotation.sampler, wx, wz) =
                RightQuadrant(before_rotation.sampler.visible_axis)
        /\ Lateral(sampler, wx, wz) > 0
        /\ Along(sampler, wx, wz) > 0
    /\ \E wx \in WorldRange, wz \in WorldRange :
        NoisePoint(sampler, wx, wz, config.noise_scale) #
            NoisePoint(before_rotation.sampler, wx, wz, config.noise_scale)

\* C2 - Origin-slide invariance: slide_origin leaves the noise point of every
\* world point, and so every terrain height, unchanged.
C2_SlideInvariance ==
    phase = "slid" =>
        \A wx \in WorldRange, wz \in WorldRange :
            /\ NoisePoint(sampler, wx, wz, config.noise_scale) =
                 NoisePoint(before_rotation.sampler, wx, wz, config.noise_scale)
            /\ TerrainHeight(wx, wz, sampler, config.noise_scale, config.chunk_size, None) =
                 TerrainHeight(wx, wz, before_rotation.sampler, config.noise_scale,
                               config.chunk_size, None)

\* C2 witness: a slide that moved both origins, after a rotation.
C2_Witness ==
    /\ phase = "slid"
    /\ rotations_total > 0
    /\ sampler.quadrant_origin # before_rotation.sampler.quadrant_origin
    /\ sampler.noise_origin # before_rotation.sampler.noise_origin

\* World points on the seam of s: lateral = 0.
OnSeam(s, wx, wz) == Lateral(s, wx, wz) = 0

\* C3 - Seam continuity: at every world point on the seam (lateral = 0) the
\* left-plane and the right-plane formula of noise_point agree, both giving
\* noise_origin + along*scale*center_axis, whatever left_axis and right_axis.
C3_SeamContinuity ==
    \A wx \in WorldRange, wz \in WorldRange :
        OnSeam(sampler, wx, wz) =>
            LET along == Along(sampler, wx, wz)
                on_center == Add3(sampler.noise_origin,
                                  Scale3(along * config.noise_scale, sampler.center_axis))
            IN  /\ LeftPlane(sampler, along, 0, config.noise_scale) = on_center
                /\ RightPlane(sampler, along, 0, config.noise_scale) = on_center
                /\ NoisePoint(sampler, wx, wz, config.noise_scale) = on_center

\* C3 witness: a sampler whose side axes differ from each other and from the
\* center axis, with seam points ahead of and behind the origin.
C3_Witness ==
    /\ sampler.left_axis # sampler.right_axis
    /\ sampler.left_axis # sampler.center_axis
    /\ sampler.right_axis # sampler.center_axis
    /\ rotations_total > 0
    /\ \E wx \in WorldRange, wz \in WorldRange :
        OnSeam(sampler, wx, wz) /\ Along(sampler, wx, wz) > 0
    /\ \E wx \in WorldRange, wz \in WorldRange :
        OnSeam(sampler, wx, wz) /\ Along(sampler, wx, wz) < 0

\* The 8 adjacency offsets: 4 edges and 4 corners.
Offsets8 == {d \in (-1..1) \X (-1..1) : d # <<0, 0>>}

\* The heights a ChunkEdgeHeights records for boundary vertex (xj, zj) of its
\* chunk (a corner is recorded in two arrays).
Recorded(edges, xj, zj, res) ==
    (IF zj = 0 THEN {edges.north[xj]} ELSE {}) \cup
    (IF zj = res - 1 THEN {edges.south[xj]} ELSE {}) \cup
    (IF xj = 0 THEN {edges.west[zj]} ELSE {}) \cup
    (IF xj = res - 1 THEN {edges.east[zj]} ELSE {})

\* Every vertex of mesh (a chunk generated at grid) that coincides with a
\* boundary vertex of the chunk at other has the height edges records there.
MatchesRecord(mesh, grid, edges, other, res) ==
    \A xi \in 0..(res - 1), zi \in 0..(res - 1), xj \in 0..(res - 1), zj \in 0..(res - 1) :
        (/\ grid[1] * (res - 1) + xi = other[1] * (res - 1) + xj
         /\ grid[2] * (res - 1) + zi = other[2] * (res - 1) + zj)
        => \A h \in Recorded(edges, xj, zj, res) : mesh.positions[zi * res + xi] = h

\* A sampler on other axes and another noise origin than any the run holds.
ForeignSampler ==
    [visible_axis |-> "South", left_axis |-> DirY, center_axis |-> DirX,
     right_axis |-> DirNegZ, noise_origin |-> <<1, -2, 3>>, quadrant_origin |-> <<-2, 2>>]

\* Live samplers a chunk next to the stale chunk is generated with.
LiveSamplers == {sampler, DefaultSampler, before_rotation.sampler, ForeignSampler}

\* C4 - Edge matching with a stale neighbour: whenever a stale chunk is held,
\* a chunk generated by generate_chunk_mesh at any of the 8 offsets around it
\* has, at every vertex that coincides with a boundary vertex of the stale
\* chunk, exactly the height the stale chunk's ChunkEdgeHeights records for
\* it, whatever the live sampler is.
C4_EdgeMatching ==
    stale # None =>
        \A d \in Offsets8, live \in LiveSamplers :
            LET st == stale[1]
                grid == Add2(st.grid_pos, d)
            IN  MatchesRecord(GenerateChunkMesh(grid[1], grid[2], config, live, stale),
                              grid, st.edge_heights, st.grid_pos, config.chunk_resolution)

\* C4 witness: manage_chunks has just generated a chunk next to the stale
\* chunk under a sampler other than the stale one, and some live sampler
\* gives the shared vertices other heights than the stale record.
C4_Witness ==
    /\ phase = "follow"
    /\ stale # None
    /\ sampler # stale[1].sampler
    /\ \E d \in Offsets8 : Add2(stale[1].grid_pos, d) \in fresh_cells
    /\ \E d \in Offsets8, live \in LiveSamplers :
        LET grid == Add2(stale[1].grid_pos, d)
        IN  ~MatchesRecord(GenerateChunkMesh(grid[1], grid[2], config, live, None),
                           grid, stale[1].edge_heights, stale[1].grid_pos,
                           config.chunk_resolution)

(***************************************************************************)
(* A long walk: the observer faces along an axis and walks a whole cell    *)
(* forwards or backwards per frame, far enough to leave chunks behind at   *)
(* more than radius + 2 cells.                                             *)
(***************************************************************************)
WalkLook == LookIn({<<0, -1>>, <<1, 0>>}, MaxRotations)

WalkMovement == MoveIn({-config.chunk_size, 0, config.chunk_size}, WalkBound)

WalkNext ==
    \/ EnterChase
    \/ ExitChase
    \/ AdvanceSection
    \/ WalkLook
    \/ WalkMovement
    \/ DetectRotation
    \/ UpdateOrigin
    \/ ManageChunks
    \/ FollowTerrainHeight
    \/ ChaseDreamRamp

WalkSpec == Init /\ [][WalkNext]_vars

\* Squared grid distance of cell g from the observer's current cell.
DistSq(g) ==
    LET player_c == GridOf(player.pos, config.chunk_size)
    IN  (g[1] - player_c[1]) * (g[1] - player_c[1]) +
        (g[2] - player_c[2]) * (g[2] - player_c[2])

\* C5 - Streamer distance bound: at the end of every tick with the observer
\* present, every cell of SpawnedChunks (and every chunk entity) is within
\* radius + 2 cells of the observer's current cell:
\* dx*dx + dz*dz <= (radius + 2)^2.
C5_DistanceBound ==
    (section = "Chase" /\ phase = "ramp" /\ player_present) =>
        /\ \A g \in spawned :
            DistSq(g) <= (config.render_radius + 2) * (config.render_radius + 2)
        /\ \A c \in chunks :
            DistSq(c.grid_pos) <= (config.render_radius + 2) * (config.render_radius + 2)

\* C5 witness: at the end of a tick, a chunk held when the tick began lies
\* more than radius + 2 cells from the observer without being behind it, and
\* is gone, while a cell at more than radius cells is still spawned.
C5_Witness ==
    /\ section = "Chase"
    /\ phase = "ramp"
    /\ player_present
    /\ \E c \in before_rotation.chunks :
        /\ DistSq(c.grid_pos) > (config.render_radius + 2) * (config.render_radius + 2)
        /\ ~OnlyBehind(c.grid_pos, GridOf(player.pos, config.chunk_size),
                       Dir2d(sampler.visible_axis), config)
        /\ c.grid_pos \notin spawned
    /\ \E g \in spawned : DistSq(g) > config.render_radius * config.render_radius

(***************************************************************************)
(* The shipped configuration (chunk_size 8, resolution 5, radius 16, cap   *)
(* 64) with an observer that turns on the spot at the world origin.        *)
(***************************************************************************)
DefaultInit == InitWith(DefaultConfig)

DefaultLook == LookIn({<<0, -1>>, <<1, 0>>}, MaxRotations)

DefaultMovement == MoveIn({0}, PosBound)

DefaultNext ==
    \/ EnterChase
    \/ ExitChase
    \/ AdvanceSection
    \/ DefaultLook
    \/ DefaultMovement
    \/ DetectRotation
    \/ UpdateOrigin
    \/ ManageChunks
    \/ FollowTerrainHeight
    \/ ChaseDreamRamp

DefaultSpec == DefaultInit /\ [][DefaultNext]_vars

\* The cells spawned when the running tick began.
CellsAtTickStart == {c.grid_pos : c \in before_rotation.chunks}

\* C6 - Per-frame spawn cap: in a single tick the spawn phase generates and
\* inserts at most MAX_SPAWNS_PER_FRAME (64) new cells into SpawnedChunks,
\* however many in-radius cells are missing.
C6_SpawnCap ==
    /\ spawned_this_frame <= MAX_SPAWNS_PER_FRAME
    /\ Cardinality(fresh_cells) <= MAX_SPAWNS_PER_FRAME
    /\ (section = "Chase" /\ phase \in {"follow", "ramp"}) =>
            Cardinality(spawned \ CellsAtTickStart) <= MAX_SPAWNS_PER_FRAME

\* C6 witness: the spawn phase stopped at 64 new cells with the observer's
\* own cell, which it wants, still missing.
C6_Witness ==
    /\ section = "Chase"
    /\ phase = "follow"
    /\ Cardinality(spawned \ CellsAtTickStart) = MAX_SPAWNS_PER_FRAME
    /\ LET player_c == GridOf(player.pos, config.chunk_size)
       IN  /\ Wanted(player_c, player_c, Dir2d(sampler.visible_axis), config)
           /\ player_c \notin spawned

\* The first tick from the initial state has run: the observer at world
\* (0, 0) facing north, the default sampler and configuration, no chunk
\* spawned when the tick began.
FirstTickDone ==
    /\ section = "Chase"
    /\ phase = "ramp"
    /\ config = DefaultConfig
    /\ player.pos = <<0, 0>>
    /\ player.forward = <<0, -1>>
    /\ before_rotation.sampler = DefaultSampler
    /\ before_rotation.chunks = {}
    /\ before_rotation.stale = None

\* C8 as claimed - after exactly one tick from the initial state
\* SpawnedChunks contains the cell (0, 0).
C8_FirstTickHasOwnCell == FirstTickDone => <<0, 0>> \in spawned

\* C8 amended - after exactly one tick from the initial state SpawnedChunks
\* holds exactly the first MAX_SPAWNS_PER_FRAME wanted cells of the row-major
\* scan, all of them at least 12 rows ahead of the observer, and not the cell
\* (0, 0); the observer's cell is in SpawnedChunks at the end of every tick
\* that spawned fewer than MAX_SPAWNS_PER_FRAME cells.
C8_FirstTickCapped ==
    /\ FirstTickDone =>
        /\ Cardinality(spawned) = MAX_SPAWNS_PER_FRAME
        /\ <<0, 0>> \notin spawned
        /\ \A g \in spawned : g[2] <= -12
    /\ (/\ section = "Chase"
        /\ phase = "ramp"
        /\ spawned_this_frame < MAX_SPAWNS_PER_FRAME)
        => GridOf(player.pos, config.chunk_size) \in spawned

\* C8 witness: the first tick from the initial state has run and spawned
\* the cell (0, -16) at the far end of the radius.
C8_Witness == FirstTickDone /\ <<0, -16>> \in spawned

\* The rotation phase of the running tick turned the default sampler from
\* north to east with the observer standing at the world origin.
TurnedEastAtOrigin ==
    /\ section = "Chase"
    /\ phase \in {"origin", "chunks", "follow", "ramp"}
    /\ player.pos = <<0, 0>>
    /\ Sector(player.forward) = "East"
    /\ before_rotation.sampler = DefaultSampler
    /\ sampler.visible_axis = "East"

\* C9 - End-to-end rotation height: the observer stands at the world origin
\* facing north and turns to face east; terrain_height at the center of the
\* observer's cell, evaluated after the rotation tick with the resulting
\* sampler and stale state, equals terrain_height there before the rotation.
C9_RotationHeight ==
    TurnedEastAtOrigin =>
        LET c == CenterOf(GridOf(player.pos, config.chunk_size), config.chunk_size)
        IN  TerrainHeight(c[1], c[2], sampler, config.noise_scale, config.chunk_size,
                          stale) =
            TerrainHeight(c[1], c[2], before_rotation.sampler, config.noise_scale,
                          config.chunk_size, before_rotation.stale)

\* Whether the rotation phase of the running tick found a rotation due: the
\* observer's facing sector differed from the visible axis the tick began with.
WasDue ==
    player_present /\ Sector(player.forward) # before_rotation.sampler.visible_axis

\* C10 - One rotation per sector change: across the rotation phase of a tick
\* with the observer present, if the facing sector differed from
\* sampler.visible_axis at the start of the tick, RotationCount is up by
\* exactly 1 and the sampler is a 90-degree rotated successor (visible axis a
\* quarter turn away, towards the facing sector when that is a neighbour, the
\* axis roles shifted by one); otherwise RotationCount and the sampler are as
\* they were.  Facing east from north gives visible axis east after one
\* rotation, and no further one in that tick.
C10_OneRotation ==
    (section = "Chase" /\ phase = "origin") =>
        LET old == before_rotation.sampler
            sector == Sector(player.forward)
        IN  IF WasDue
            THEN /\ rotation_count = before_rotation.rotation_count + 1
                 /\ sampler.visible_axis \in {AxisLeft(old.visible_axis),
                                              AxisRight(old.visible_axis)}
                 /\ sector \in {AxisLeft(old.visible_axis), AxisRight(old.visible_axis)}
                        => sampler.visible_axis = sector
                 /\ IF sampler.visible_axis = AxisRight(old.visible_axis)
                    THEN /\ sampler.left_axis = old.center_axis
                         /\ sampler.center_axis = old.right_axis
                    ELSE /\ sampler.center_axis = old.left_axis
                         /\ sampler.right_axis = old.center_axis
                 /\ (old.visible_axis = "North" /\ sector = "East")
                        => sampler.visible_axis = "East"
            ELSE /\ rotation_count = before_rotation.rotation_count
                 /\ sampler = old

\* C10 witness: the rotation phase has just turned the sampler from north to
\* east and counted one rotation.
C10_Witness ==
    /\ section = "Chase"
    /\ phase = "origin"
    /\ WasDue
    /\ before_rotation.sampler.visible_axis = "North"
    /\ Sector(player.forward) = "East"
    /\ rotation_count = 1
    /\ before_rotation.rotation_count = 0

\* Two chunk entities on cells that share an edge have equal heights along it.
EdgesAgree(a, b) ==
    /\ (b.grid_pos = Add2(a.grid_pos, <<1, 0>>)) =>
            \A zi \in 0..(config.chunk_resolution - 1) :
                a.edge_heights.east[zi] = b.edge_heights.west[zi]
    /\ (b.grid_pos = Add2(a.grid_pos, <<0, 1>>)) =>
            \A xi \in 0..(config.chunk_resolution - 1) :
                a.edge_heights.south[xi] = b.edge_heights.north[xi]

\* C7 - Exact-match vertex sharing across chunk edges: at the end of every
\* tick any two spawned chunks on edge-adjacent cells have identical heights
\* at every vertex of their shared boundary (east array of one = west array
\* of the other, south = north).
C7_VertexSharing ==
    (section = "Chase" /\ phase = "ramp") =>
        \A a \in chunks, b \in chunks : EdgesAgree(a, b)

(***************************************************************************)
(* blend_factor on its own: terrain_height evaluated at points drawn from  *)
(* a window, against stale regions and chunk sizes drawn from small sets.  *)
(***************************************************************************)
\* Stale regions on several cells, recorded under a sampler unlike the live
\* one.
BlendStales ==
    {[sampler |-> ForeignSampler, grid_pos |-> g,
      edge_heights |-> GenerateChunkMesh(g[1], g[2], SmallConfig, ForeignSampler,
                                         None).edge_heights] :
        g \in {<<0, 0>>, <<-1, 1>>, <<1, -2>>}}

BlendInit ==
    /\ config \in {[SmallConfig EXCEPT !.chunk_size = c] : c \in 1..(SmallRadius + 1)}
    /\ section = "Menu"
    /\ phase = "blend"
    /\ player_present = TRUE
    /\ player = InitialPlayer
    /\ sampler = DefaultSampler
    /\ stale \in {Some(st) : st \in BlendStales}
    /\ spawned = {}
    /\ chunks = {}
    /\ colours = InitialColours
    /\ rotation_count = 0
    /\ spawned_this_frame = 0
    /\ fresh_cells = {}
    /\ before_rotation = NoFrame
    /\ rotations_total = 0
    /\ draw = NoDraw
    /\ dream = NoDream

\* terrain_height at a point of the window; the blend factor it used is the
\* third component of the height whenever the two samplers differ there.
ApplyBlendFactor ==
    /\ phase \in {"blend", "blended"}
    /\ phase' = "blended"
    /\ \E wx \in WorldRange, wz \in WorldRange :
        player' = [player EXCEPT
                     !.pos = <<wx, wz>>,
                     !.y = TerrainHeight(wx, wz, sampler, config.noise_scale,
                                         config.chunk_size, stale)]
    /\ UNCHANGED <<config, draw, section, player_present>>
    /\ UNCHANGED terrain_vars

BlendNext == ApplyBlendFactor

BlendSpec == BlendInit /\ [][BlendNext]_vars

\* Squared Euclidean distance of (wx, wz) from the footprint of cell g.
FootprintDistSq(wx, wz, g, chunk_size) ==
    LET ex == IF wx < g[1] * chunk_size THEN g[1] * chunk_size - wx
              ELSE IF wx > (g[1] + 1) * chunk_size THEN wx - (g[1] + 1) * chunk_size
              ELSE 0
        ez == IF wz < g[2] * chunk_size THEN g[2] * chunk_size - wz
              ELSE IF wz > (g[2] + 1) * chunk_size THEN wz - (g[2] + 1) * chunk_size
              ELSE 0
    IN  ex * ex + ez * ez

\* C11 - Blend factor bounds: blend_factor is exactly 0 for points inside or
\* on the stale chunk's footprint, exactly 1 for points at Euclidean
\* distance >= chunk_size from it, always within [0, 1], and non-decreasing
\* in the distance to the footprint.
C11_BlendBounds ==
    phase = "blended" =>
        LET st == stale[1]
            cs == config.chunk_size
            one == SmoothDen(0, cs)
            b == BlendFactor(player.pos[1], player.pos[2], st, cs)
            d == FootprintDistSq(player.pos[1], player.pos[2], st.grid_pos, cs)
        IN  /\ d = 0 => b = 0
            /\ d >= cs * cs => b = one
            /\ 0 <= b /\ b <= one
            /\ \A wx \in WorldRange, wz \in WorldRange :
                FootprintDistSq(wx, wz, st.grid_pos, cs) >= d
                    => BlendFactor(wx, wz, st, cs) >= b
            /\ player.y = IF b < one
                          THEN Lerp(NoisePoint(st.sampler, player.pos[1], player.pos[2],
                                               config.noise_scale),
                                    NoisePoint(sampler, player.pos[1], player.pos[2],
                                               config.noise_scale), b)
                          ELSE SampleHeight(NoisePoint(sampler, player.pos[1],
                                                       player.pos[2], config.noise_scale))

\* C11 witness: terrain_height was evaluated at a point strictly between the
\* footprint and chunk_size away from it, with a blend factor strictly
\* between 0 and 1 that shows in the height.
C11_Witness ==
    /\ phase = "blended"
    /\ LET st == stale[1]
           cs == config.chunk_size
           b == BlendFactor(player.pos[1], player.pos[2], st, cs)
           d == FootprintDistSq(player.pos[1], player.pos[2], st.grid_pos, cs)
       IN  /\ 0 < d /\ d < cs * cs
           /\ 0 < b /\ b < SmoothDen(0, cs)
           /\ player.y[3] = b

\* C12 - Stale region lifecycle: in every reachable state, also after
\* leaving and re-entering the Chase section, at most one StaleRegion exists,
\* and whenever one exists the chunk at its grid_pos is spawned (its cell is
\* in SpawnedChunks and a chunk entity stands on it): the snapshot is cleared
\* whenever that chunk is despawned.
C12_StaleLifecycle ==
    /\ Len(stale) <= 1
    /\ stale # None =>
        /\ stale[1].grid_pos \in spawned
        /\ \E c \in chunks : c.grid_pos = stale[1].grid_pos

\* C13 - SpawnedChunks mirrors the live chunk set: at the end of every frame
\* (and between the systems of a frame, whose commands are applied before
\* the next one runs) SpawnedChunks equals the set of grid_pos values of the
\* live TerrainChunk entities and no two of them share a grid_pos, across
\* rotation despawns, distance/behind despawns, capped spawning and
\* exit_chase.
C13_SpawnedMirrorsChunks ==
    /\ spawned = {c.grid_pos : c \in chunks}
    /\ Cardinality(chunks) = Cardinality(spawned)

\* C13 witness: the end of a frame whose rotation phase and despawn scan
\* removed chunks held at its start and whose spawn scan stopped at the cap.
C13_Witness ==
    /\ section = "Chase"
    /\ phase = "ramp"
    /\ WasDue
    /\ spawned_this_frame = config.max_spawns
    /\ \E c \in before_rotation.chunks : c.grid_pos \notin spawned
    /\ \E c \in before_rotation.chunks : c.grid_pos \in spawned

\* Cells within radius of the observer's cell whose center is not behind the
\* observer along the visible axis.
InRadiusAhead ==
    LET player_c == GridOf(player.pos, config.chunk_size)
        r == config.render_radius
    IN  {g \in ((player_c[1] - r)..(player_c[1] + r)) \X
               ((player_c[2] - r)..(player_c[2] + r)) :
            Wanted(g, player_c, Dir2d(sampler.visible_axis), config)}

\* C14 - Amortised spawning completes: once a tick's spawn scan has run to
\* its end without reaching the cap (which an observer staying in its cell
\* with the same facing sector gets after finitely many ticks, and after
\* which further ticks there spawn nothing), every cell with
\* dx*dx + dz*dz <= radius^2 whose center is not behind the observer is in
\* SpawnedChunks.
C14_SpawningCompletes ==
    (/\ section = "Chase"
     /\ phase = "ramp"
     /\ player_present
     /\ spawned_this_frame < config.max_spawns) => InRadiusAhead \subseteq spawned

\* Coordinate along the current visible axis of the center of cell g.
AlongOfCell(g) == Dot2(CenterOf(g, config.chunk_size), Dir2d(sampler.visible_axis))

\* C15 - No chunk behind the observer: at the end of every tick with the
\* observer present, the center of every cell of SpawnedChunks has a
\* coordinate along the current visible axis greater than or equal to that of
\* the center of the observer's cell; chunks behind are despawned and none is
\* spawned.
C15_NoChunkBehind ==
    (section = "Chase" /\ phase \in {"follow", "ramp"} /\ player_present) =>
        LET own == AlongOfCell(GridOf(player.pos, config.chunk_size))
        IN  /\ \A g \in spawned : AlongOfCell(g) >= own
            /\ \A c \in chunks : AlongOfCell(c.grid_pos) >= own
            /\ \A g \in fresh_cells : AlongOfCell(g) >= own

\* C15 witness: at the end of a tick without rotation, a chunk held at its
\* start lies behind the observer and is gone, and cells were spawned.
C15_Witness ==
    /\ section = "Chase"
    /\ phase = "ramp"
    /\ player_present
    /\ ~WasDue
    /\ fresh_cells # {}
    /\ \E c \in before_rotation.chunks :
        /\ AlongOfCell(c.grid_pos) < AlongOfCell(GridOf(player.pos, config.chunk_size))
        /\ c.grid_pos \notin spawned

(***************************************************************************)
(* The observer going missing.  No system of the repository despawns the   *)
(* Player, but every terrain system asks for it with Query::single and     *)
(* returns when there is not exactly one; here the entity is removed       *)
(* between two frames of the chase and the frames go on without it.        *)
(***************************************************************************)
ObserverLost ==
    /\ section = "Chase"
    /\ phase = "look"
    /\ player_present
    /\ player_present' = FALSE
    /\ UNCHANGED <<config, draw, section, phase, player>>
    /\ UNCHANGED terrain_vars

AbsentNext ==
    \/ Next
    \/ ObserverLost

AbsentSpec == Init /\ [][AbsentNext]_vars

\* C16: with no single Player entity, detect_rotation, update_origin,
\* manage_chunks and follow_terrain_height each return at once: the step each
\* of them takes leaves the sampler, StaleChunk, SpawnedChunks (and the chunk
\* entities), the quadrant colours and RotationCount as they were.
C16_MissingObserver ==
    [][(~player_present /\ section = "Chase"
            /\ phase \in {"rotation", "origin", "chunks", "follow"})
        => UNCHANGED <<sampler, stale, spawned, chunks, colours, rotation_count>>]_vars

\* A frame's four terrain systems have run without the observer, while the
\* first frame's capped scan had left cells still to spawn.
C16_Witness ==
    /\ ~player_present
    /\ section = "Chase"
    /\ phase = "ramp"
    /\ chunks # {}
    /\ Cardinality(spawned) = config.max_spawns
    /\ before_rotation.chunks = chunks
    /\ before_rotation.sampler = sampler

(***************************************************************************)
(* chase_dream_ramp in any place of the frame: it is in the Update         *)
(* schedule like the terrain chain and not ordered against it, so it may   *)
(* run before detect_rotation, between two terrain systems, or last.       *)
(***************************************************************************)
RampEarly ==
    /\ section = "Chase"
    /\ phase \in {"rotation", "origin", "chunks", "follow"}
    /\ ~dream.ramped
    /\ DreamRamp
    /\ UNCHANGED <<config, draw, section, phase, player_present, player, sampler, stale,
                   spawned, chunks, colours, spawned_this_frame, fresh_cells,
                   before_rotation, rotations_total>>

RampNext ==
    \/ Next
    \/ RampEarly

RampSpec == Init /\ [][RampNext]_vars

\* C17: inside the Chase section every step changes RotationCount only by
\* adding 1 (exactly when a rotation is made) or by resetting it to 0, the
\* reset comes with one intensity bump per counted rotation, and the
\* rotations made always equal the bumps applied plus the count still
\* pending, wherever in the frame chase_dream_ramp runs; entering Chase
\* resets the count.
C17_RotationCounter ==
    [][/\ (section = "Chase" /\ section' = "Chase") =>
            /\ rotation_count' \in {rotation_count, rotation_count + 1, 0}
            /\ (rotation_count' = rotation_count + 1) =
                    (rotations_total' = rotations_total + 1)
            /\ rotation_count' + dream'.bumps =
                    rotation_count + dream.bumps + (rotations_total' - rotations_total)
            /\ (rotation_count > 0 /\ rotation_count' = 0) =>
                    dream'.bumps = dream.bumps + rotation_count
       /\ (section = "Menu" /\ section' = "Chase") => rotation_count' = 0
      ]_vars

\* chase_dream_ramp ran before detect_rotation in a frame that rotated: the
\* rotation is still counted, and not yet bumped, when the next frame begins.
C17_Witness ==
    /\ section = "Chase"
    /\ phase = "look"
    /\ rotation_count = 1
    /\ rotations_total = 1
    /\ dream.bumps = 0

(***************************************************************************)
(* The scatterer on its own: spawn_chunk_objects applied to cells, samplers *)
(* and stale states drawn from bounded sets, while the observer, which is  *)
(* no argument of it, moves about between two evaluations.                 *)
(***************************************************************************)
ScatterCells == (-PosBound..PosBound) \X (-PosBound..PosBound)

ScatterInit ==
    /\ config = SmallConfig
    /\ section = "Menu"
    /\ phase = "scatter"
    /\ player_present = TRUE
    /\ player = InitialPlayer
    /\ sampler \in {DefaultSampler, ForeignSampler}
    /\ stale \in {None} \cup {Some(st) : st \in BlendStales}
    /\ spawned = {}
    /\ chunks = {}
    /\ colours = InitialColours
    /\ rotation_count = 0
    /\ spawned_this_frame = 0
    /\ fresh_cells = {}
    /\ before_rotation = NoFrame
    /\ rotations_total = 0
    /\ draw = NoDraw
    /\ dream = NoDream

\* The chunk entity of cell g spawned with its objects, as manage_chunks
\* spawns it; the chunk evaluated before is dropped.
ApplySpawnChunkObjects ==
    /\ phase \in {"scatter", "scattered"}
    /\ phase' = "scattered"
    /\ \E g \in ScatterCells :
        /\ chunks' =
            {[grid_pos |-> g,
              edge_heights |-> GenerateChunkMesh(g[1], g[2], config, sampler,
                                                 stale).edge_heights,
              objects |-> SpawnChunkObjects(g[1], g[2], config, sampler, stale,
                                            BlueNoisePoints, TerrainObjectAssets)]}
        /\ spawned' = {g}
    /\ UNCHANGED <<config, draw, section, player_present, player, sampler, stale, colours,
                   rotation_count, spawned_this_frame, fresh_cells, before_rotation,
                   rotations_total, dream>>

\* The observer moving between two evaluations.
ObserverWanders ==
    /\ phase \in {"scatter", "scattered"}
    /\ \E pos \in Positions : player' = [player EXCEPT !.pos = pos]
    /\ UNCHANGED <<config, draw, section, phase, player_present>>
    /\ UNCHANGED terrain_vars

ScatterNext ==
    \/ ApplySpawnChunkObjects
    \/ ObserverWanders

ScatterSpec == ScatterInit /\ [][ScatterNext]_vars

TurnLook == LookIn({<<0, -1>>, <<-1, 0>>, <<0, 1>>}, MaxRotations + 1)

TurnNext ==
    \/ EnterChase
    \/ ExitChase
    \/ AdvanceSection
    \/ TurnLook
    \/ PlayerMovement
    \/ DetectRotation
    \/ UpdateOrigin
    \/ ManageChunks
    \/ FollowTerrainHeight
    \/ ChaseDreamRamp

TurnSpec == Init /\ [][TurnNext]_vars

\* The observer's cell, whether its center was in the quadrant the running
\* tick's rotation retired, and its chunk as it was when the tick began.
OwnCell == GridOf(player.pos, config.chunk_size)

OwnCellRetiring ==
    LET center == CenterOf(OwnCell, config.chunk_size)
        old == before_rotation.sampler
    IN  QuadrantAt(old, center[1], center[2]) =
            Retiring(old.visible_axis, Sector(player.forward))

OwnChunkBefore == {c \in before_rotation.chunks : c.grid_pos = OwnCell}

TrackedBefore ==
    before_rotation.stale # None /\ before_rotation.stale[1].grid_pos = OwnCell

\* C19 - Stale capture on rotation: right after the rotation phase of a tick
\* that rotated, if the center of the observer's cell was in the retiring
\* quadrant and that cell's chunk was spawned, a StaleRegion exists for that
\* cell: the one that tracked it before, unchanged, or else one holding the
\* pre-rotation sampler and the chunk's edge heights.  If the cell was not in
\* the retiring quadrant, the StaleRegion is the one from before or none.
C19_StaleCapture ==
    (section = "Chase" /\ phase = "origin" /\ WasDue) =>
        /\ (OwnCellRetiring /\ OwnChunkBefore # {}) =>
                /\ stale # None
                /\ stale[1].grid_pos = OwnCell
                /\ IF TrackedBefore
                   THEN stale = before_rotation.stale
                   ELSE /\ stale[1].sampler = before_rotation.sampler
                        /\ \E c \in OwnChunkBefore :
                                stale[1].edge_heights = c.edge_heights
        /\ ~OwnCellRetiring => stale \in {before_rotation.stale, None}

\* A second rotation in the cell whose chunk the first one captured: the
\* StaleRegion still holds the sampler from before the first rotation, not
\* the one this rotation replaced.
C19_Witness ==
    /\ section = "Chase"
    /\ phase = "origin"
    /\ WasDue
    /\ OwnCellRetiring
    /\ OwnChunkBefore # {}
    /\ TrackedBefore
    /\ stale = before_rotation.stale
    /\ stale[1].sampler # before_rotation.sampler

\* The chunks, other than the observer's own, whose center is behind the
\* sampler's quadrant_origin along the sampler's visible axis.
BehindLiveOrigin ==
    LET dir == Dir2d(sampler.visible_axis)
    IN  BehindOrigin(chunks, dir, Dot2(sampler.quadrant_origin, dir), OwnCell, config)

\* C20 - Rotation despawn: right after the rotation phase of a tick that
\* rotated, no chunk other than the observer's own cell is left whose center
\* is behind the new sampler's quadrant_origin along the new sampler's
\* visible axis, and a stale snapshot is left only if its chunk is.
C20_RotationDespawn ==
    (section = "Chase" /\ phase = "origin" /\ WasDue) =>
        /\ BehindLiveOrigin = {}
        /\ stale # None => \E c \in chunks : c.grid_pos = stale[1].grid_pos

\* The noise points of the evaluated position under the stale snapshot's
\* sampler and under the live one.
OldPoint ==
    NoisePoint(stale[1].sampler, player.pos[1], player.pos[2], config.noise_scale)

LivePoint == NoisePoint(sampler, player.pos[1], player.pos[2], config.noise_scale)

\* C21 - Blend endpoints of terrain_height: with an active StaleRegion the
\* height at a point inside or on the stale chunk's footprint is the height
\* sampled through the snapshot's sampler alone, at distance >= chunk_size
\* from the footprint it is the height sampled through the live sampler
\* alone, and in between it is old + t * (new - old) with t = blend_factor.
C21_BlendEndpoints ==
    (phase = "blended" /\ stale # None) =>
        LET cs == config.chunk_size
            d == FootprintDistSq(player.pos[1], player.pos[2], stale[1].grid_pos, cs)
        IN  /\ d = 0 => player.y = SampleHeight(OldPoint)
            /\ d >= cs * cs => player.y = SampleHeight(LivePoint)
            /\ (0 < d /\ d < cs * cs) =>
                player.y = Lerp(OldPoint, LivePoint,
                                BlendFactor(player.pos[1], player.pos[2], stale[1], cs))

\* terrain_height was evaluated on the footprint at a point the two samplers
\* map to different noise points, and gave the old height.
C21_Witness ==
    /\ phase = "blended"
    /\ stale # None
    /\ FootprintDistSq(player.pos[1], player.pos[2], stale[1].grid_pos,
                       config.chunk_size) = 0
    /\ OldPoint # LivePoint
    /\ player.y = SampleHeight(OldPoint)

(***************************************************************************)
(* Facing anywhere: the observer stands still and turns to any horizontal  *)
(* forward vector of a small grid, diagonals and the zero vector included. *)
(***************************************************************************)
FacingVectors == (-FacingBound..FacingBound) \X (-FacingBound..FacingBound)

FacingLook == LookIn(FacingVectors, MaxRotations + 1)

FacingMovement == MoveIn({0}, PosBound)

FacingNext ==
    \/ EnterChase
    \/ ExitChase
    \/ AdvanceSection
    \/ FacingLook
    \/ FacingMovement
    \/ DetectRotation
    \/ UpdateOrigin
    \/ ManageChunks
    \/ FollowTerrainHeight
    \/ ChaseDreamRamp

FacingSpec == Init /\ [][FacingNext]_vars

\* C22 - Sector classification: the sector detect_rotation classified for
\* the forward vector (x, z) is North if |z| >= |x| and z < 0, South if
\* |z| >= |x| and z >= 0, East if |x| > |z| and x > 0, West otherwise; it is
\* one of the four for every vector, and a diagonal facing (|x| = |z|) is
\* North or South.
C22_SectorClassification ==
    (section = "Chase" /\ phase = "origin" /\ player_present) =>
        LET x == player.forward[1]
            z == player.forward[2]
            got == before_rotation.sector
        IN  /\ got \in VisibleAxis
            /\ (Abs(z) >= Abs(x) /\ z < 0) => got = "North"
            /\ (Abs(z) >= Abs(x) /\ z >= 0) => got = "South"
            /\ (Abs(x) > Abs(z) /\ x > 0) => got = "East"
            /\ (Abs(x) > Abs(z) /\ x <= 0) => got = "West"
            /\ Abs(x) = Abs(z) => got \in {"North", "South"}

\* detect_rotation classified a diagonal facing that points east of south.
C22_Witness ==
    /\ section = "Chase"
    /\ phase = "origin"
    /\ player_present
    /\ player.forward[1] = player.forward[2]
    /\ player.forward[1] > 0
    /\ before_rotation.sector = "South"

\* Coordinate of the 2D vector v along the visible axis of sampler s, and
\* across it (along the axis to its left).
AlongAxis(s, v) == Dot2(v, Dir2d(s.visible_axis))

AcrossAxis(s, v) == Dot2(v, Dir2d(AxisLeft(s.visible_axis)))

\* C23 - Origin one chunk behind the observer: the origin-slide phase of
\* every tick leaves quadrant_origin's coordinate along the visible axis an
\* integer multiple of chunk_size with
\* origin_along <= observer_along < origin_along + chunk_size, and does not
\* change the origin's coordinate across the visible axis.
C23_OriginBehindObserver ==
    [][(section = "Chase" /\ phase = "origin" /\ player_present) =>
        LET origin_along == AlongAxis(sampler', sampler'.quadrant_origin)
            observer_along == AlongAxis(sampler', player.pos)
        IN  /\ phase' = "chunks"
            /\ origin_along % config.chunk_size = 0
            /\ origin_along <= observer_along
            /\ observer_along < origin_along + config.chunk_size
            /\ AcrossAxis(sampler', sampler'.quadrant_origin) =
                    AcrossAxis(sampler, sampler.quadrant_origin)
      ]_vars

\* The slide has just run for an observer who walked on without turning:
\* the origin is on a chunk boundary away from the world origin, off the
\* place the tick found it at, and the observer is inside the chunk ahead.
C23_Witness ==
    /\ section = "Chase"
    /\ phase = "chunks"
    /\ player_present
    /\ ~before_rotation.rotated
    /\ sampler.quadrant_origin # before_rotation.sampler.quadrant_origin
    /\ AlongAxis(sampler, sampler.quadrant_origin) # 0
    /\ AlongAxis(sampler, player.pos) > AlongAxis(sampler, sampler.quadrant_origin)

\* C24 - Rotation origin: the sampler rotate_left or rotate_right returned
\* to detect_rotation has its quadrant_origin, along the new visible
\* direction, at floor(observer_along / chunk_size) * chunk_size, and along
\* the old visible line where the old quadrant_origin was.
C24_RotationOrigin ==
    (section = "Chase" /\ phase = "origin" /\ before_rotation.rotated) =>
        LET old == before_rotation.sampler
            cs == config.chunk_size
        IN  /\ AlongAxis(sampler, sampler.quadrant_origin) =
                    (AlongAxis(sampler, player.pos) \div cs) * cs
            /\ AlongAxis(old, sampler.quadrant_origin) =
                    AlongAxis(old, old.quadrant_origin)

\* A rotation made away from the world origin: the old origin had been slid
\* along the old visible axis, and the new one is off zero along the new.
C24_Witness ==
    /\ section = "Chase"
    /\ phase = "origin"
    /\ before_rotation.rotated
    /\ AlongAxis(before_rotation.sampler, before_rotation.sampler.quadrant_origin) # 0
    /\ AlongAxis(sampler, sampler.quadrant_origin) # 0

\* The roles of a sampler's three noise axes, and those whose axis of the
\* sampler before the rotation is an axis of the sampler after it.
AxisRoles == {"left_axis", "center_axis", "right_axis"}

CarriedOver ==
    {r \in AxisRoles :
        before_rotation.sampler[r] \in {sampler[q] : q \in AxisRoles}}

\* C25 as stated - exactly one of the old sampler's three noise axes carries
\* over into the sampler rotate_left or rotate_right returns.
C25_OneAxisCarriedOver ==
    phase \in {"rotated_left", "rotated_right"} => Cardinality(CarriedOver) = 1

\* C25 amended - two of the old sampler's three noise axes carry over
\* unchanged into the new sampler, the old center axis and the old axis on
\* the side of the surviving quadrant (left for rotate_left, right for
\* rotate_right), and each of the three roles holds another axis than before.
C25_TwoAxesCarriedOver ==
    phase \in {"rotated_left", "rotated_right"} =>
        /\ "center_axis" \in CarriedOver
        /\ (IF phase = "rotated_left" THEN "left_axis" ELSE "right_axis") \in CarriedOver
        /\ Cardinality(CarriedOver) >= 2
        /\ \A r \in AxisRoles : sampler[r] # before_rotation.sampler[r]

\* rotate_right has run: the old center and right axes are in the new
\* sampler, the old left axis is not.
C25_Witness ==
    /\ phase = "rotated_right"
    /\ CarriedOver = {"center_axis", "right_axis"}

\* C26 - Axis role mapping on rotation: rotate_right gives left_axis = old
\* center_axis, center_axis = old right_axis and a right_axis drawn
\* orthogonal to the old right_axis, with visible_axis = old.right() and the
\* old right quadrant as the new left one; rotate_left gives center_axis =
\* old left_axis, right_axis = old center_axis and a left_axis drawn
\* orthogonal to the old left_axis, with visible_axis = old.left() and the
\* old left quadrant as the new right one.
C26_AxisRoleMapping ==
    LET old == before_rotation.sampler
    IN  /\ phase = "rotated_right" =>
            /\ sampler.left_axis = old.center_axis
            /\ sampler.center_axis = old.right_axis
            /\ sampler.right_axis \in RandomOrthogonalDir3(old.right_axis)
            /\ sampler.visible_axis = AxisRight(old.visible_axis)
            /\ LeftQuadrant(sampler.visible_axis) = RightQuadrant(old.visible_axis)
        /\ phase = "rotated_left" =>
            /\ sampler.center_axis = old.left_axis
            /\ sampler.right_axis = old.center_axis
            /\ sampler.left_axis \in RandomOrthogonalDir3(old.left_axis)
            /\ sampler.visible_axis = AxisLeft(old.visible_axis)
            /\ RightQuadrant(sampler.visible_axis) = LeftQuadrant(old.visible_axis)

\* rotate_left has run on a sampler that is not the default one, and the
\* axis drawn for the left role is none of the old three.
C26_Witness ==
    /\ phase = "rotated_left"
    /\ before_rotation.sampler # DefaultSampler
    /\ sampler.center_axis = before_rotation.sampler.left_axis
    /\ sampler.left_axis \notin {before_rotation.sampler[r] : r \in AxisRoles}

\* The systems of the terrain chain in the order TerrainPlugin::build chains
\* them, by the phase in which each one runs, and the phase after the last.
TerrainChain == <<"rotation", "origin", "chunks", "follow", "ramp">>

MeshReach == 2

\* Stale regions recorded under a sampler unlike the live one, with edge
\* arrays of the configuration's resolution.
MeshStales(cfg) ==
    {[sampler |-> ForeignSampler, grid_pos |-> g,
      edge_heights |-> GenerateChunkMesh(g[1], g[2], cfg, ForeignSampler,
                                         None).edge_heights] :
        g \in {<<0, 0>>, <<-1, 1>>}}

MeshInit ==
    /\ config \in {SmallConfig, DefaultConfig}
    /\ section = "Menu"
    /\ phase = "mesh"
    /\ player_present = TRUE
    /\ player = InitialPlayer
    /\ sampler = DefaultSampler
    /\ stale \in {None} \cup {Some(st) : st \in MeshStales(config)}
    /\ spawned = {}
    /\ chunks = {}
    /\ colours = InitialColours
    /\ rotation_count = 0
    /\ spawned_this_frame = 0
    /\ fresh_cells = {}
    /\ before_rotation = NoFrame
    /\ rotations_total = 0
    /\ draw = NoDraw
    /\ dream = NoDream

\* The cells a mesh is generated for: those within MeshReach of the stale
\* cell, or of cell (0, 0) when nothing is stale.
MeshCells ==
    LET at == IF stale = None THEN <<0, 0>> ELSE stale[1].grid_pos
    IN  {Add2(at, d) : d \in (-MeshReach..MeshReach) \X (-MeshReach..MeshReach)}

\* One call of generate_chunk_mesh: the vertex heights, the edge arrays it
\* returns and, per vertex, what shared_height answered; the mesh generated
\* before is dropped.
ApplyGenerateChunkMesh ==
    /\ phase \in {"mesh", "meshed"}
    /\ phase' = "meshed"
    /\ \E g \in MeshCells :
        LET res == config.chunk_resolution
            made == GenerateChunkMesh(g[1], g[2], config, sampler, stale)
        IN  /\ chunks' =
                {[grid_pos |-> g,
                  edge_heights |-> made.edge_heights,
                  positions |-> made.positions,
                  shared |-> [i \in 0..(res * res - 1) |->
                                StaleSharedHeight(g[1], g[2], i % res, i \div res,
                                                  res, stale)]]}
            /\ spawned' = {g}
    /\ UNCHANGED <<config, draw, section, player_present, player, sampler, stale, colours,
                   rotation_count, spawned_this_frame, fresh_cells, before_rotation,
                   rotations_total, dream>>

MeshNext == ApplyGenerateChunkMesh

MeshSpec == MeshInit /\ [][MeshNext]_vars

\* The offsets of the 8 cells around a cell.
NeighbourOffsets == ((-1..1) \X (-1..1)) \ {<<0, 0>>}

\* Whether vertex (xi, zi) of chunk (chunk_x, chunk_z), at world position
\* (chunk_x * size + xi * step, chunk_z * size + zi * step), lies on the
\* boundary of the cell (stale_x, stale_z); in units of one vertex step.
OnBoundaryOf(chunk_x, chunk_z, xi, zi, stale_x, stale_z, res) ==
    LET last == res - 1
        x == chunk_x * last + xi
        z == chunk_z * last + zi
        min_x == stale_x * last
        min_z == stale_z * last
    IN  /\ x \in min_x..(min_x + last)
        /\ z \in min_z..(min_z + last)
        /\ \/ x \in {min_x, min_x + last}
           \/ z \in {min_z, min_z + last}

\* C28 - shared_height overrides exactly the shared boundary: for a chunk at
\* offset (dx, dz) from the stale chunk and vertex (xi, zi), shared_height
\* returns a stored height if and only if (dx, dz) is one of the 8 neighbour
\* offsets and the vertex's world position lies on the stale chunk's
\* boundary; for the stale cell itself, for non-adjacent chunks and for every
\* other vertex it returns None, and the vertex then has the height
\* terrain_height gives.
C28_SharedBoundary ==
    \A c \in chunks :
        phase = "meshed" =>
            LET res == config.chunk_resolution
                size == config.chunk_size
                step == size \div (res - 1)
            IN  \A xi \in 0..(res - 1), zi \in 0..(res - 1) :
                    LET got == c.shared[zi * res + xi]
                    IN  /\ (got # None) =
                            /\ stale # None
                            /\ Sub2(c.grid_pos, stale[1].grid_pos) \in NeighbourOffsets
                            /\ OnBoundaryOf(c.grid_pos[1], c.grid_pos[2], xi, zi,
                                            stale[1].grid_pos[1], stale[1].grid_pos[2],
                                            res)
                        /\ got # None =>
                            got[1] \in {stale[1].edge_heights[e][k] :
                                            e \in {"north", "south", "west", "east"},
                                            k \in 0..(res - 1)}
                        /\ got = None =>
                            c.positions[zi * res + xi] =
                                TerrainHeight(c.grid_pos[1] * size + xi * step,
                                              c.grid_pos[2] * size + zi * step,
                                              sampler, config.noise_scale, size, stale)

\* A mesh generated for the cell diagonally south-east of the stale cell:
\* its north-west corner alone takes a stored height.
C28_Witness ==
    /\ phase = "meshed"
    /\ stale # None
    /\ \E c \in chunks :
        /\ Sub2(c.grid_pos, stale[1].grid_pos) = <<1, 1>>
        /\ c.shared[0] # None
        /\ \A i \in 1..(config.chunk_resolution * config.chunk_resolution - 1) :
                c.shared[i] = None

\* The entries of the returned edge arrays that belong to vertex (xi, zi).
EdgeEntries(edges, xi, zi, res) ==
    {edges.north[k] : k \in {k \in {xi} : zi = 0}}
        \cup {edges.south[k] : k \in {k \in {xi} : zi = res - 1}}
        \cup {edges.west[k] : k \in {k \in {zi} : xi = 0}}
        \cup {edges.east[k] : k \in {k \in {zi} : xi = res - 1}}

\* C29 - Returned edge arrays equal the generated mesh boundary:
\* generate_chunk_mesh returns north[xi] = height of vertex (xi, 0),
\* south[xi] = height of vertex (xi, res-1), west[zi] = height of vertex
\* (0, zi), east[zi] = height of vertex (res-1, zi), a height taken from a
\* stale neighbour appearing verbatim, and the four corner entries agree
\* between the two arrays that contain them.
C29_EdgeArrays ==
    \A c \in chunks :
        phase = "meshed" =>
            LET res == config.chunk_resolution
                last == res - 1
                edges == c.edge_heights
            IN  /\ \A k \in 0..last :
                    /\ edges.north[k] = c.positions[k]
                    /\ edges.south[k] = c.positions[last * res + k]
                    /\ edges.west[k] = c.positions[k * res]
                    /\ edges.east[k] = c.positions[k * res + last]
                /\ \A xi \in 0..last, zi \in 0..last :
                    c.shared[zi * res + xi] # None =>
                        /\ EdgeEntries(edges, xi, zi, res) # {}
                        /\ EdgeEntries(edges, xi, zi, res) = {c.shared[zi * res + xi][1]}
                /\ edges.north[0] = edges.west[0]
                /\ edges.north[last] = edges.east[0]
                /\ edges.south[0] = edges.west[last]
                /\ edges.south[last] = edges.east[last]

\* A mesh of resolution 5 generated east of the stale cell: its west array is
\* the stale cell's east array, its corners agree, and the heights along its
\* south and east edges are all different.
C29_Witness ==
    /\ phase = "meshed"
    /\ config.chunk_resolution = 5
    /\ stale # None
    /\ \E c \in chunks :
        /\ Sub2(c.grid_pos, stale[1].grid_pos) = <<1, 0>>
        /\ \A k \in 0..4 : c.edge_heights.west[k] = stale[1].edge_heights.east[k]
        /\ c.edge_heights.south[0] = c.edge_heights.west[4]
        /\ Cardinality({c.edge_heights.south[k] : k \in 0..4}
                        \cup {c.edge_heights.east[k] : k \in 0..4}) = 9

(***************************************************************************)
(* The rejection sampler on its own: random_orthogonal_dir3 called as      *)
(* rotate_left and rotate_right call it, one loop iteration per step.  The *)
(* random source is fair to the vectors the loops accept.                  *)
(***************************************************************************)
\* Axes the sampler is called with: axes of the default sampler and
\* directions earlier calls returned.
DrawDirs == {DirX, DirNegX, DirNegZ, <<0, -2, 1>>, <<1, 1, -1>>}

DrawInit ==
    /\ config = SmallConfig
    /\ section = "Menu"
    /\ phase = "rng"
    /\ player_present = TRUE
    /\ player = InitialPlayer
    /\ sampler = DefaultSampler
    /\ stale = None
    /\ spawned = {}
    /\ chunks = {}
    /\ colours = InitialColours
    /\ rotation_count = 0
    /\ spawned_this_frame = 0
    /\ fresh_cells = {}
    /\ before_rotation = NoFrame
    /\ rotations_total = 0
    /\ dream = NoDream
    /\ draw = NoDraw

\* rotate_left or rotate_right calls random_orthogonal_dir3(dir).
CallRandomOrthogonalDir3 ==
    /\ phase \in {"rng", "returned"}
    /\ phase' = "drawing"
    /\ \E dir \in DrawDirs : draw' = [NoDraw EXCEPT !.dir = dir]
    /\ UNCHANGED <<config, section, player_present, player>>
    /\ UNCHANGED terrain_vars

\* One more vector drawn and rejected, by random_unit_vec3 (units = 0) or,
\* random_unit_vec3 having returned it (units = 1), by random_orthogonal_dir3.
Rejected(units) ==
    [draw EXCEPT !.draws = Min(draw.draws + 1, MaxDraws),
                 !.units = Min(draw.units + units, MaxDraws)]

\* random_unit_vec3 draws a vector too short and loops.
DrawTooShort ==
    /\ phase = "drawing"
    /\ \E u \in RngVectors : ~UnitAccepts(u)
    /\ draw' = Rejected(0)
    /\ UNCHANGED <<config, section, phase, player_present, player>>
    /\ UNCHANGED terrain_vars

\* random_unit_vec3 returns a vector too close to the axis, and
\* random_orthogonal_dir3 loops.
DrawTooParallel ==
    /\ phase = "drawing"
    /\ \E u \in RngVectors : UnitAccepts(u) /\ ~OrthogonalAccepts(u, draw.dir)
    /\ draw' = Rejected(1)
    /\ UNCHANGED <<config, section, phase, player_present, player>>
    /\ UNCHANGED terrain_vars

\* The draw passes both tests: random_orthogonal_dir3 returns the direction
\* of the projected vector, or panics if Dir3::new finds none.
DrawAccepted ==
    /\ phase = "drawing"
    /\ \E u \in RngVectors :
        /\ UnitAccepts(u)
        /\ OrthogonalAccepts(u, draw.dir)
        /\ LET made == Dir3New(Projected(u, draw.dir))
           IN  /\ draw' = [draw EXCEPT !.result = made]
               /\ phase' = IF made = None THEN "panicked" ELSE "returned"
    /\ UNCHANGED <<config, section, player_present, player>>
    /\ UNCHANGED terrain_vars

DrawNext ==
    \/ CallRandomOrthogonalDir3
    \/ DrawTooShort
    \/ DrawTooParallel
    \/ DrawAccepted

DrawSpec == DrawInit /\ [][DrawNext]_vars /\ WF_vars(DrawAccepted)

\* C30 - Rejection sampling terminates: given a random source that
\* eventually produces a vector with squared length > 0.01 whose component
\* orthogonal to the axis has squared length > 0.01, every call of
\* random_orthogonal_dir3 returns, without a panic, and what it returns is a
\* direction (a unit vector) orthogonal to the axis it was given.
C30_RejectionSampling ==
    /\ [](phase # "panicked")
    /\ [](phase = "returned" =>
            /\ draw.result # None
            /\ draw.result[1] # <<0, 0, 0>>
            /\ Normalize(draw.result[1]) = draw.result[1]
            /\ Dot3(draw.result[1], draw.dir) = 0)
    /\ (phase = "drawing") ~> (phase = "returned")

\* A call with an axis that is no coordinate axis returned a direction after
\* draws were rejected.
C30_Witness ==
    /\ phase = "returned"
    /\ draw.dir = <<0, -2, 1>>
    /\ draw.draws = MaxDraws
    /\ draw.units = 1
    /\ draw.result # None
    /\ draw.result[1] \notin {DirX, DirNegX}

\* C31 - Sampler tracks the facing sector: from the rotation phase to the
\* end of every tick in which the observer is present, sampler.visible_axis
\* equals the sector classified from the observer's forward vector in that
\* tick, also when that sector is opposite to the previous visible axis, and
\* the chunks the rotation phase despawned are those behind the origin
\* along that same axis.
C31_SamplerTracksSector ==
    (section = "Chase" /\ player_present
        /\ phase \in {"origin", "chunks", "follow", "ramp"}) =>
        /\ sampler.visible_axis = before_rotation.sector
        /\ (phase = "origin" /\ WasDue) =>
            LET dir == Dir2d(sampler.visible_axis)
            IN  before_rotation.chunks \ chunks =
                    BehindOrigin(before_rotation.chunks, dir,
                                 Dot2(sampler.quadrant_origin, dir), OwnCell, config)

\* C32 - The observer's own cell is never evicted: no step of a tick, with
\* or without a rotation, despawns the chunk of the cell the observer is in,
\* and a StaleRegion tracking that cell stays as it is, for as long as the
\* observer stays in the cell.
C32_OwnCellKept ==
    [][(section = "Chase" /\ section' = "Chase" /\ player_present
            /\ GridOf(player'.pos, config.chunk_size) = OwnCell) =>
        \A c \in chunks :
            c.grid_pos = OwnCell =>
                /\ c \in chunks'
                /\ OwnCell \in spawned'
                /\ (stale # None /\ stale[1].grid_pos = OwnCell) => stale' = stale
      ]_vars

\* The rotation phase has turned the sampler while the center of the
\* observer's cell is behind the new quadrant_origin; the cell's chunk and
\* the StaleRegion tracking it are still there.
C32_Witness ==
    /\ section = "Chase"
    /\ phase = "origin"
    /\ WasDue
    /\ Dot2(CenterOf(OwnCell, config.chunk_size), Dir2d(before_rotation.sector))
            < Dot2(sampler.quadrant_origin, Dir2d(before_rotation.sector))
    /\ \E c \in chunks : c.grid_pos = OwnCell /\ c \in before_rotation.chunks
    /\ stale # None
    /\ stale[1].grid_pos = OwnCell

\* The cells whose footprints the sampler is looked at on.
GridWindow ==
    LET reach == PosBound + SmallRadius
    IN  (-reach..reach) \X (-reach..reach)

\* The four corners of cell g's footprint.
Corners(g, chunk_size) ==
    {<<(g[1] + i) * chunk_size, (g[2] + j) * chunk_size>> : i \in {0, 1}, j \in {0, 1}}

\* C33 - Quadrant origin stays on the chunk grid: after any sequence of
\* slide_origin, rotate_left and rotate_right calls from the default sampler
\* both coordinates of quadrant_origin are integer multiples of chunk_size,
\* so no chunk footprint has corners on both sides of the seam or of the
\* origin line, and a footprint's first corner is in the quadrant of its
\* center.
C33_OriginOnGrid ==
    LET cs == config.chunk_size
    IN  /\ sampler.quadrant_origin[1] % cs = 0
        /\ sampler.quadrant_origin[2] % cs = 0
        /\ \A g \in GridWindow :
            LET center == CenterOf(g, cs)
            IN  /\ \/ \A c \in Corners(g, cs) : Lateral(sampler, c[1], c[2]) >= 0
                   \/ \A c \in Corners(g, cs) : Lateral(sampler, c[1], c[2]) <= 0
                /\ \/ \A c \in Corners(g, cs) : Along(sampler, c[1], c[2]) >= 0
                   \/ \A c \in Corners(g, cs) : Along(sampler, c[1], c[2]) <= 0
                /\ QuadrantAt(sampler, g[1] * cs, g[2] * cs) =
                        QuadrantAt(sampler, center[1], center[2])

\* A rotation applied after a slide, by an observer off the chunk grid, has
\* left an origin with both coordinates away from zero.
C33_Witness ==
    /\ phase \in {"rotated_left", "rotated_right"}
    /\ before_rotation.sampler.quadrant_origin # sampler.quadrant_origin
    /\ sampler.quadrant_origin[1] # 0
    /\ sampler.quadrant_origin[2] # 0
    /\ rotations_total = MaxRotations

\* C34 - The observer's cell is ahead of the origin: after the origin-slide
\* phase of every tick, for every visible axis and every observer position,
\* positions on a chunk boundary included, the center of the observer's grid
\* cell is not behind quadrant_origin along the visible axis, and the cell is
\* in the left or the right visible quadrant.
C34_OwnCellAhead ==
    (section = "Chase" /\ phase = "chunks" /\ player_present) =>
        LET center == CenterOf(OwnCell, config.chunk_size)
        IN  /\ Along(sampler, center[1], center[2]) >= 0
            /\ QuadrantAt(sampler, center[1], center[2]) \in
                    {LeftQuadrant(sampler.visible_axis),
                     RightQuadrant(sampler.visible_axis)}

(***************************************************************************)
(* Standing still: the observer turns and steps while no chunk exists, as  *)
(* in the first frame of Chase, and keeps its cell and its facing while    *)
(* there are chunks; the frames go on.                                     *)
(***************************************************************************)
\* mouse_look without mouse motion once chunks exist.
StillLook ==
    IF spawned = {}
    THEN LookIn(Forwards, MaxRotations + 1)
    ELSE /\ section = "Chase"
         /\ phase = "look"
         /\ phase' = "move"
         /\ UNCHANGED <<config, draw, section, player_present, player>>
         /\ UNCHANGED terrain_vars

\* player_movement without a key pressed once chunks exist.
StillMovement ==
    IF spawned = {}
    THEN PlayerMovement
    ELSE /\ section = "Chase"
         /\ phase = "move"
         /\ phase' = "rotation"
         /\ UNCHANGED <<config, draw, section, player_present, player>>
         /\ UNCHANGED terrain_vars

StillNext ==
    \/ EnterChase
    \/ StillLook
    \/ StillMovement
    \/ DetectRotation
    \/ UpdateOrigin
    \/ ManageChunks
    \/ FollowTerrainHeight
    \/ ChaseDreamRamp

StillSpec == Init /\ [][StillNext]_vars /\ WF_vars(StillNext)

\* C35 - Streaming reaches a fixed point: while the observer's cell and
\* facing sector do not change, a chunk that was spawned in one tick is not
\* despawned in a later one.
C35_StreamingFixedPoint ==
    [][(section = "Chase" /\ section' = "Chase") =>
        /\ chunks \subseteq chunks'
        /\ spawned \subseteq spawned'
      ]_vars

\* slide_origin called on sampler s with the observer at pos.
Slid(s, pos) == SlideOrigin(s, pos, config.chunk_size, config.noise_scale)

\* The samplers rotate_left and rotate_right can return for sampler s with the
\* observer at pos.
Turned(s, pos) ==
    {RotateLeft(s, pos, config.chunk_size, config.noise_scale, fresh) :
        fresh \in RandomOrthogonalDir3(s.left_axis)}
    \cup {RotateRight(s, pos, config.chunk_size, config.noise_scale, fresh) :
            fresh \in RandomOrthogonalDir3(s.right_axis)}

\* C36 - slide_origin is idempotent: calling slide_origin twice with the
\* same observer position, chunk_size and scale leaves the sampler as one
\* call leaves it, and calling it right after rotate_left or rotate_right
\* with the same observer position changes nothing.
C36_SlideIdempotent ==
    phase \in {"sampler", "slid", "rotated_left", "rotated_right"} =>
        \A pos \in Positions :
            /\ Slid(Slid(sampler, pos), pos) = Slid(sampler, pos)
            /\ \A t \in Turned(sampler, pos) : Slid(t, pos) = t
            /\ (phase = "slid" /\ sampler = Slid(before_rotation.sampler, pos))
                    => Slid(sampler, pos) = sampler
            /\ (phase \in {"rotated_left", "rotated_right"}
                    /\ sampler \in Turned(before_rotation.sampler, pos))
                    => Slid(sampler, pos) = sampler

\* rotate_right has moved the origin for an observer off the chunk grid, and
\* a slide for the same observer leaves the sampler as it is.
C36_Witness ==
    /\ phase = "rotated_right"
    /\ sampler.quadrant_origin # before_rotation.sampler.quadrant_origin
    /\ \E pos \in Positions :
        /\ pos[1] % config.chunk_size # 0
        /\ pos[2] % config.chunk_size # 0
        /\ sampler \in Turned(before_rotation.sampler, pos)
        /\ Slid(sampler, pos) = sampler

(***************************************************************************)
(* The mesh generator at other resolutions: generate_chunk_mesh under the  *)
(* small and the default configuration and under one with six vertices to  *)
(* a side.                                                                 *)
(***************************************************************************)
\* TerrainConfig with chunk_resolution 6 and a chunk_size of whole steps.
WideConfig == [DefaultConfig EXCEPT !.chunk_size = 10, !.chunk_resolution = 6]

\* Stale regions exist at the resolutions at which a mesh was returned.
ResolutionInit ==
    /\ config \in {SmallConfig, DefaultConfig, WideConfig}
    /\ section = "Menu"
    /\ phase = "mesh"
    /\ player_present = TRUE
    /\ player = InitialPlayer
    /\ sampler \in {DefaultSampler, ForeignSampler}
    /\ stale \in {None} \cup
                 (IF config.chunk_resolution <= EdgeLen
                  THEN {Some(st) : st \in MeshStales(config)}
                  ELSE {})
    /\ spawned = {}
    /\ chunks = {}
    /\ colours = InitialColours
    /\ rotation_count = 0
    /\ spawned_this_frame = 0
    /\ fresh_cells = {}
    /\ before_rotation = NoFrame
    /\ rotations_total = 0
    /\ draw = NoDraw
    /\ dream = NoDream

\* One call of generate_chunk_mesh: the cell, the indices at which the edge
\* arrays were written, and those at which shared_height read the stale
\* chunk's arrays (xi, zi, 0 or res - 1, when a stale region was passed).
ApplyAtResolution ==
    /\ phase \in {"mesh", "meshed"}
    /\ phase' = "meshed"
    /\ \E g \in MeshCells :
        LET res == config.chunk_resolution
            made == GenerateChunkMesh(g[1], g[2], config, sampler, stale)
        IN  /\ chunks' =
                {[grid_pos |-> g,
                  edge_indices |-> made.edge_indices,
                  shared_indices |->
                    IF stale = None THEN {}
                    ELSE {k \in 0..(res - 1) :
                            \E xi \in 0..(res - 1), zi \in 0..(res - 1) :
                                /\ k \in {xi, zi, 0, res - 1}
                                /\ StaleSharedHeight(g[1], g[2], xi, zi, res,
                                                     stale) # None}]}
            /\ spawned' = {g}
    /\ UNCHANGED <<config, draw, section, player_present, player, sampler, stale,
                   colours, rotation_count, spawned_this_frame, fresh_cells,
                   before_rotation, rotations_total, dream>>

ResolutionNext == ApplyAtResolution

ResolutionSpec == ResolutionInit /\ [][ResolutionNext]_vars

\* C37 - Mesh generation is safe for every configured resolution: for every
\* chunk_resolution >= 2 set in TerrainConfig, generate_chunk_mesh and
\* shared_height index the ChunkEdgeHeights arrays within their bounds only.
C37_EdgeIndexInBounds ==
    \A c \in chunks :
        (phase = "meshed" /\ config.chunk_resolution >= 2) =>
            /\ c.edge_indices \subseteq 0..(EdgeLen - 1)
            /\ c.shared_indices \subseteq 0..(EdgeLen - 1)

\* C38 - Axis and quadrant algebra is consistent: left and right of
\* VisibleAxis are mutually inverse 4-cycles; for every axis a,
\* a.right().left_quadrant() = a.right_quadrant() and
\* a.left().right_quadrant() = a.left_quadrant(); and for every sampler and
\* every point strictly ahead of the origin quadrant_at returns
\* visible_axis.left_quadrant() where lateral > 0 (noise_point's left branch)
\* and visible_axis.right_quadrant() where lateral < 0.
C38_AxisQuadrantAlgebra ==
    /\ \A a \in VisibleAxis :
        /\ AxisLeft(AxisRight(a)) = a
        /\ AxisRight(AxisLeft(a)) = a
        /\ AxisLeft(a) # a
        /\ AxisLeft(AxisLeft(a)) # a
        /\ AxisLeft(AxisLeft(AxisLeft(a))) # a
        /\ AxisLeft(AxisLeft(AxisLeft(AxisLeft(a)))) = a
        /\ AxisRight(AxisRight(AxisRight(AxisRight(a)))) = a
        /\ AxisRight(AxisRight(a)) # a
        /\ LeftQuadrant(AxisRight(a)) = RightQuadrant(a)
        /\ RightQuadrant(AxisLeft(a)) = LeftQuadrant(a)
    /\ phase \in {"sampler", "slid", "rotated_left", "rotated_right"} =>
        \A wx \in WorldRange, wz \in WorldRange :
            Along(sampler, wx, wz) > 0 =>
                /\ Lateral(sampler, wx, wz) > 0 =>
                    /\ QuadrantAt(sampler, wx, wz) = LeftQuadrant(sampler.visible_axis)
                    /\ NoisePoint(sampler, wx, wz, config.noise_scale) =
                         LeftPlane(sampler, Along(sampler, wx, wz),
                                   Lateral(sampler, wx, wz), config.noise_scale)
                /\ Lateral(sampler, wx, wz) < 0 =>
                    /\ QuadrantAt(sampler, wx, wz) = RightQuadrant(sampler.visible_axis)
                    /\ NoisePoint(sampler, wx, wz, config.noise_scale) =
                         RightPlane(sampler, Along(sampler, wx, wz),
                                    Lateral(sampler, wx, wz), config.noise_scale)

\* A sampler turned to face west, its origin away from zero, with points of
\* the window ahead of the origin on either side of the seam.
C38_Witness ==
    /\ phase = "rotated_left"
    /\ sampler.visible_axis = "West"
    /\ sampler.quadrant_origin # <<0, 0>>
    /\ \E wx \in WorldRange, wz \in WorldRange :
        /\ Along(sampler, wx, wz) > 0
        /\ Lateral(sampler, wx, wz) > 0
        /\ QuadrantAt(sampler, wx, wz) = "SouthWest"
    /\ \E wx \in WorldRange, wz \in WorldRange :
        /\ Along(sampler, wx, wz) > 0
        /\ Lateral(sampler, wx, wz) < 0
        /\ QuadrantAt(sampler, wx, wz) = "NorthWest"
====
